---- MODULE Spec2Model ----
(***************************************************************************)
(* State-machine model of the SeriesTracker component                      *)
(* (components/SeriesTracker.tsx) and of the persistence gateway it talks  *)
(* to (services/supabaseClient.ts).                                        *)
(*                                                                         *)
(* Strings the code inspects (the text typed in the add box, the text of   *)
(* a status report, the title and body of a notification) are sequences of *)
(* characters, so that trim(), split(), match(), includes(), startsWith()  *)
(* and replace() are computed; an emoji is one character, named by its     *)
(* code point, and a run of letters the code never looks into may stand    *)
(* as one.  A series list is a sequence of names.  Timestamps are positive integers     *)
(* read from a clock; 0 stands for null / no timestamp.  The clock counts  *)
(* hours of local time from a Sunday 00:00, without daylight-saving        *)
(* shifts.  Platform timers (setTimeout, setInterval) are records with a   *)
(* handle; time reaches the instant a timer is due in the step in which    *)
(* the timer fires.                                                        *)
(*                                                                         *)
(* One page session runs from a (re)load of the page to the next one.  A   *)
(* page reload kills every pending continuation and timer of the session;  *)
(* gateway requests that were already sent stay in flight.  The component  *)
(* stays mounted for the whole session.                                    *)
(*                                                                         *)
(* Each async handler is cut at its awaits: one action for the part that   *)
(* runs up to the await, one for each way the awaited call settles.  The   *)
(* render and the effects that follow a state change are part of the       *)
(* action that makes the change.                                           *)
(***************************************************************************)
EXTENDS Integers, Sequences, FiniteSets, Bags, TLC

(* ---------------------------- bounds ---------------------------------- *)

\* single hours pass in the first MaxTime hours of a week only
MaxTime == 2
\* weeks after the first one in which the weekly timers still fire
MaxWeeks == 2
\* rows the gateway table tracked_series may hold
MaxRows == 2
\* fire-and-forget gateway writes that may be in flight together
MaxInflight == 1
\* lines of the texts the parser is run on
MaxLines == 4
\* markers in the bodies the classifier is run on
MaxMarkers == 2

(* ------------------------- value universes ---------------------------- *)

SP == " "
NL == "\n"
STAR == "*"
\* what trim() removes and \s matches
WhiteSpace == { SP, NL }
NameA == <<"a">>
NameB == <<"b">>

\* texts the user may submit in the add box
Inputs == { <<>>, <<SP>>, NameA, <<SP, "a">>, NameB }

\* names remove() may be called with
Names == { NameA, NameB }

\* localStorage.getItem() of a key that was never set
Absent == <<"absent">>

NoTimestamp == 0

\* `null` in the result state
NoResult == << "null" >>
NoError == "null"
CheckFailedMessage == "Failed to check episode status. Please try again."

\* `null` in a timer ref
NoHandle == 0

(* ------------------------------ calendar ------------------------------ *)

HoursPerDay == 24

\* 7 * 24 * 60 * 60 * 1000 ms, in hours
Week == 7 * 24

\* next.setHours(10, 0, 0, 0)
TenAM == 10

\* Date.prototype.getDay: 0 = Sunday
getDay(t) == (t \div HoursPerDay) % 7

\* hour of the day
getHours(t) == t % HoursPerDay

\* mutation: a Sunday is its own next Sunday
msUntilNextSundaySameDay(now) ==
    LET day == getDay(now)
        daysUntil == (7 - day) % 7
        next == (now - getHours(now)) + daysUntil * HoursPerDay + TenAM
    IN next - now

\* delay, in hours, from now to the trigger instant
msUntilNextSunday(now) ==
    LET day == getDay(now)
        daysUntil == IF day = 0 THEN 7 ELSE 7 - day
        next == (now - getHours(now)) + daysUntil * HoursPerDay + TenAM
    IN next - now

\* the largest delay setTimeout / setInterval honour (2^31 - 1 ms, in whole
\* hours); a larger one, and a negative one, is replaced by the smallest
MaxTimerDelay == 596

TimerDelay(ms) == IF ms > MaxTimerDelay \/ ms < 0 THEN 0 ELSE ms

\* the last instant at which a weekly timer still fires
Horizon == TenAM + MaxWeeks * Week

\* 01:00 of the Sunday a week before that instant
LastSunday == Horizon - TenAM - Week + 1

(* --------------------------- pure helpers ----------------------------- *)

RECURSIVE TrimStart(_)
TrimStart(s) ==
    IF s /= <<>> /\ Head(s) \in WhiteSpace THEN TrimStart(Tail(s)) ELSE s

RECURSIVE TrimEnd(_)
TrimEnd(s) ==
    IF s /= <<>> /\ s[Len(s)] \in WhiteSpace THEN TrimEnd(SubSeq(s, 1, Len(s) - 1)) ELSE s

\* String.prototype.trim
Trim(s) == TrimEnd(TrimStart(s))

\* Array.prototype.includes
Includes(list, x) == \E i \in 1..Len(list) : list[i] = x

\* Array.prototype.filter(s => s !== name)
RECURSIVE FilterOut(_, _)
FilterOut(list, name) ==
    IF list = <<>> THEN <<>>
    ELSE IF Head(list) = name THEN FilterOut(Tail(list), name)
         ELSE <<Head(list)>> \o FilterOut(Tail(list), name)

\* number of occurrences of x in list
Count(list, x) == Cardinality({ i \in 1..Len(list) : list[i] = x })

\* JSON.stringify of a string array, kept as a tagged value in the cache
JSONstringify(list) == <<"json", list>>

\* JSON.parse(localStorage.getItem(STORAGE_KEY) || '[]')
ParseStoredList(raw) == IF raw = Absent THEN <<>> ELSE raw[2]

\* String(boolean)
StringOfBool(b) == IF b THEN <<"true">> ELSE <<"false">>

\* localStorage.getItem(NOTIF_ENABLED_KEY) === 'true'
ParseStoredBool(raw) == raw = <<"true">>

(* --------------------------- status reports --------------------------- *)

\* the markers getStatusMeta looks for
Available == "U+2705"
Confirmed == "U+1F51C"
InProduction == "U+1F3AC"
Pending == "U+23F3"
Ended == "U+274C"

\* 'Status:'
StatusPrefix == << "S", "t", "a", "t", "u", "s", ":" >>

\* String.prototype.split('\n')
RECURSIVE SplitLines(_)
SplitLines(text) ==
    IF \A i \in 1..Len(text) : text[i] /= NL THEN << text >>
    ELSE LET i == CHOOSE i \in 1..Len(text) :
                      text[i] = NL /\ \A j \in 1..(i - 1) : text[j] /= NL
         IN  << SubSeq(text, 1, i - 1) >> \o SplitLines(SubSeq(text, i + 1, Len(text)))

\* Array.prototype.join('\n')
RECURSIVE JoinLines(_)
JoinLines(lines) ==
    IF lines = <<>> THEN <<>>
    ELSE IF Len(lines) = 1 THEN lines[1]
    ELSE lines[1] \o << NL >> \o JoinLines(Tail(lines))

\* Array.prototype.join(', ')
RECURSIVE JoinTitles(_)
JoinTitles(titles) ==
    IF titles = <<>> THEN <<>>
    ELSE IF Len(titles) = 1 THEN titles[1]
    ELSE titles[1] \o << ",", SP >> \o JoinTitles(Tail(titles))

\* String.prototype.includes(marker), the marker being one character
Has(body, marker) == \E i \in 1..Len(body) : body[i] = marker

\* String.prototype.startsWith
StartsWith(s, prefix) ==
    Len(s) >= Len(prefix) /\ SubSeq(s, 1, Len(prefix)) = prefix

\* String.prototype.replace(pattern, replacement): the first occurrence only
Replace(s, pattern, replacement) ==
    LET at == { i \in 1..(Len(s) - Len(pattern) + 1) :
                    SubSeq(s, i, i + Len(pattern) - 1) = pattern }
    IN  IF at = {} THEN s
        ELSE LET i == CHOOSE i \in at : \A j \in at : i <= j
             IN  SubSeq(s, 1, i - 1) \o replacement \o SubSeq(s, i + Len(pattern), Len(s))

\* `null` of String.prototype.match
NoMatch == <<>>

\* s.match(/^\*\*(.+?)\*\*\s*$/): the places where the group (.+?) may end
TitleEnds(s) ==
    { k \in 3..(Len(s) - 2) :
        /\ \A j \in 3..k : s[j] /= NL
        /\ s[k + 1] = STAR /\ s[k + 2] = STAR
        /\ \A j \in (k + 3)..Len(s) : s[j] \in WhiteSpace }

\* mutation: the line is matched as it is, blanks around it included
titleMatchUntrimmed(line) ==
    IF Len(line) >= 2 /\ line[1] = STAR /\ line[2] = STAR /\ TitleEnds(line) /= {}
    THEN << SubSeq(line, 3, CHOOSE k \in TitleEnds(line) : \A j \in TitleEnds(line) : k <= j) >>
    ELSE NoMatch

\* line.trim().match(/^\*\*(.+?)\*\*\s*$/): << titleMatch[1] >>, or NoMatch;
\* the lazy group ends at the first place that lets the rest match
titleMatch(line) ==
    LET s == Trim(line) IN
    IF Len(s) >= 2 /\ s[1] = STAR /\ s[2] = STAR /\ TitleEnds(s) /= {}
    THEN << SubSeq(s, 3, CHOOSE k \in TitleEnds(s) : \A j \in TitleEnds(s) : k <= j) >>
    ELSE NoMatch

\* the loop of parseResultSections over the lines
RECURSIVE ScanLines(_, _)
ScanLines(lines, sections) ==
    IF lines = <<>> THEN sections
    ELSE LET m == titleMatch(Head(lines))
             n == Len(sections)
         IN  ScanLines(Tail(lines),
                 IF m /= NoMatch
                 THEN Append(sections, [title |-> m[1], body |-> <<>>])
                 ELSE IF n > 0
                 THEN [sections EXCEPT ![n].body = Append(@, Head(lines))]
                 ELSE sections)

\* mutation: the bodies are joined and left as they are
parseResultSectionsNoTrim(text) ==
    LET raw == ScanLines(SplitLines(text), <<>>) IN
    [i \in 1..Len(raw) |->
        [title |-> raw[i].title, body |-> JoinLines(raw[i].body)]]

\* parseResultSections: sections of [title, body]
parseResultSections(text) ==
    LET raw == ScanLines(SplitLines(text), <<>>) IN
    [i \in 1..Len(raw) |->
        [title |-> raw[i].title, body |-> Trim(JoinLines(raw[i].body))]]

\* mutation: the ended marker is looked for first
getStatusMetaEndedFirst(body) ==
    IF Has(body, Ended)
    THEN [badge |-> << Ended, SP, "Ended" >>, isGoodNews |-> FALSE]
    ELSE IF Has(body, Available)
    THEN [badge |-> << Available, SP, "New", SP, "Episodes" >>, isGoodNews |-> TRUE]
    ELSE IF Has(body, Confirmed)
    THEN [badge |-> << Confirmed, SP, "New", SP, "Season" >>, isGoodNews |-> TRUE]
    ELSE IF Has(body, InProduction)
    THEN [badge |-> << InProduction, SP, "In", SP, "Production" >>, isGoodNews |-> TRUE]
    ELSE IF Has(body, Pending)
    THEN [badge |-> << Pending, SP, "Pending" >>, isGoodNews |-> FALSE]
    ELSE [badge |-> << "U+2753", SP, "Unknown" >>, isGoodNews |-> FALSE]

\* getStatusMeta: the badge and whether the section is good news
getStatusMeta(body) ==
    IF Has(body, Available)
    THEN [badge |-> << Available, SP, "New", SP, "Episodes" >>, isGoodNews |-> TRUE]
    ELSE IF Has(body, Confirmed)
    THEN [badge |-> << Confirmed, SP, "New", SP, "Season" >>, isGoodNews |-> TRUE]
    ELSE IF Has(body, InProduction)
    THEN [badge |-> << InProduction, SP, "In", SP, "Production" >>, isGoodNews |-> TRUE]
    ELSE IF Has(body, Pending)
    THEN [badge |-> << Pending, SP, "Pending" >>, isGoodNews |-> FALSE]
    ELSE IF Has(body, Ended)
    THEN [badge |-> << Ended, SP, "Ended" >>, isGoodNews |-> FALSE]
    ELSE [badge |-> << "U+2753", SP, "Unknown" >>, isGoodNews |-> FALSE]

\* "**" + title + "**"
Header(title) == << STAR, STAR >> \o title \o << STAR, STAR >>

\* 'Status: ' + marker
StatusLine(marker) == StatusPrefix \o << SP, marker >>

\* the report of one series with new episodes (the format the prompt asks for)
Report == JoinLines(<< Header(NameA), StatusLine(Available) >>)

\* texts the status provider answers with
LookupTexts == { Report }

\* a section whose only line is a marker: no status line
BadgeOnly(title, marker) == JoinLines(<< Header(title), << marker >> >>)

\* a section in the format the prompt asks for
Section(title, marker) == JoinLines(<< Header(title), StatusLine(marker) >>)

\* what the provider may answer: nothing, one series with good news, one
\* without, two with good news (the second without a status line), one with
\* and one without good news, and a text without any header
ProviderResponses ==
    { <<>>,
      Report,
      Section(NameA, Pending),
      JoinLines(<< Section(NameB, Confirmed), <<>>, BadgeOnly(NameA, InProduction) >>),
      JoinLines(<< Section(NameA, Ended), <<>>, Section(NameB, Available) >>),
      << "Sorry, no results." >> }

\* the lines the parser is run on: empty, text, text between blanks, a
\* header, a header between blanks, a header followed by text
LineShapes ==
    { <<>>, << "x" >>, << SP, "x", SP >>, Header(NameA),
      << SP >> \o Header(NameB) \o << SP >>, Header(NameA) \o << "x" >> }

\* every text of one to MaxLines such lines
ParserTexts ==
    { JoinLines(lines) :
        lines \in UNION { [1..n -> LineShapes] : n \in 1..MaxLines } }

Markers == { Available, Confirmed, InProduction, Pending, Ended }

\* the texts the classifier is run on: one section whose body is a line of
\* up to MaxMarkers different markers, in any order
MarkerTexts ==
    { JoinLines(<< Header(NameA), line >>) :
        line \in { l \in UNION { [1..n -> Markers] : n \in 0..MaxMarkers } :
                      \A i, j \in 1..Len(l) : i /= j => l[i] /= l[j] } }

\* the texts the parser and the classifier are run on
DisplayTexts == ParserTexts \cup MarkerTexts

\* "Could not retrieve episode status."
CouldNotRetrieve == << "Could not retrieve episode status." >>

\* const text = response.text || "Could not retrieve episode status.";
checkNewEpisodes(response) ==
    IF response = <<>> THEN CouldNotRetrieve ELSE response

(* ------------------------------ state --------------------------------- *)

VARIABLES
    isSupabaseAvailable, \* the gateway client exists (deployment constant)
    phase,               \* "render" | "loadEffect" | "mounted" | "unmounted"
    seriesList,          \* useState seriesList
    lastChecked,         \* useState lastChecked (NoTimestamp = null)
    notifEnabled,        \* useState notifEnabled
    notifPermission,     \* useState notifPermission
    dbLoading,           \* useState dbLoading
    syncError,           \* useState syncError
    loading,             \* useState loading
    result,              \* useState result
    error,               \* useState error
    cacheList,           \* localStorage[STORAGE_KEY]
    cacheLast,           \* localStorage[LAST_CHECK_KEY]
    cacheNotif,          \* localStorage[NOTIF_ENABLED_KEY]
    gwList,              \* rows of tracked_series, in added_at order
    gwSettings,          \* the tracker_settings row
    inflight,            \* bag of gateway writes nobody waits on
    pcLoad,              \* the initial-load continuation
    pcCheck,             \* the handleCheck continuation
    pcAuto,              \* the runAutoCheck continuation
    pcToggle,            \* the handleToggleNotifications continuation
    weeklyTimerRef,      \* useRef: handle of the last setTimeout, or NoHandle
    weeklyIntervalRef,   \* useRef: handle of the last setInterval, or NoHandle
    timers,              \* the platform's pending timeouts and intervals
    clock,               \* Date.now()
    permission,          \* Notification.permission ("unsupported": no Notification)
    notifications,       \* history: the notifications the scheduled check that ran last attempted
    lastEvent,           \* history: the store operation (load, add, remove) that ran last
    beforeClear          \* history: what the user had when local storage was last cleared

vars == << isSupabaseAvailable, phase, seriesList, lastChecked, notifEnabled,
           notifPermission, dbLoading, syncError, loading, result, error,
           cacheList, cacheLast, cacheNotif, gwList, gwSettings, inflight,
           pcLoad, pcCheck, pcAuto, pcToggle, weeklyTimerRef,
           weeklyIntervalRef, timers, clock, permission, notifications,
           lastEvent, beforeClear >>

memVars   == << seriesList, lastChecked, notifEnabled >>
cacheVars == << cacheList, cacheLast, cacheNotif >>
gwVars    == << gwList, gwSettings >>
uiVars    == << loading, result, error >>
schedVars == << weeklyTimerRef, weeklyIntervalRef, timers >>

(* --------------------------- gateway model ---------------------------- *)

\* fetchSettings() answering null: no tracker_settings row
NoRow == [present |-> FALSE, notif_enabled |-> FALSE, last_checked_at |-> NoTimestamp]

SettingsRows ==
    { [present |-> TRUE, notif_enabled |-> b, last_checked_at |-> t] :
        b \in BOOLEAN, t \in 0..MaxTime }

\* saveSettings({ notif_enabled: v }): upsert on the single owner row; a
\* column the call does not name keeps its value, or its default on insert
UpsertNotif(row, v) ==
    [present |-> TRUE, notif_enabled |-> v, last_checked_at |-> row.last_checked_at]

\* saveSettings({ last_checked_at: t })
UpsertLastChecked(row, t) ==
    [present |-> TRUE, notif_enabled |-> row.notif_enabled, last_checked_at |-> t]

\* a gateway write nobody waits on
Req(op, name, flag) == [op |-> op, name |-> name, flag |-> flag]

\* the async gateway functions throw before sending when supabase is null
Send(req) ==
    IF isSupabaseAvailable THEN inflight (+) SetToBag({req}) ELSE inflight

CanSend == BagCardinality(inflight) < MaxInflight

\* the table after the gateway has applied a write
ApplyWrite(req) ==
    CASE req.op = "addSeries" ->
            /\ gwList' = Append(gwList, req.name)
            /\ UNCHANGED gwSettings
      [] req.op = "removeSeries" ->
            /\ gwList' = FilterOut(gwList, req.name)
            /\ UNCHANGED gwSettings
      [] req.op = "saveNotif" ->
            /\ gwSettings' = UpsertNotif(gwSettings, req.flag)
            /\ UNCHANGED gwList

(* ------------------------- scheduling effect -------------------------- *)

\* a pending one-shot timer, and a pending interval
timerPending == \E t \in timers : t.kind = "timeout"
intervalPending == \E t \in timers : t.kind = "interval"

\* a handle the platform has not handed out: handles are never reused, so
\* one that is neither pending nor held in a ref stands for any new one
NewHandle(pending) ==
    LET used == { t.id : t \in pending } \cup { weeklyTimerRef, weeklyIntervalRef }
        free == (1..(Cardinality(used) + 1)) \ used
    IN CHOOSE h \in free : \A g \in free : h <= g

\* setTimeout(callback, ms) called at instant now: the timer that becomes
\* pending; the callback closes over list
Timeout(id, list, now, ms) ==
    [id |-> id, kind |-> "timeout", list |-> list, due |-> now + TimerDelay(ms)]

\* setInterval(callback, ms) called at instant now
Interval(id, list, now, ms) ==
    [id |-> id, kind |-> "interval", list |-> list, due |-> now + TimerDelay(ms),
     ms |-> TimerDelay(ms)]

\* mutation: only the one-shot handle is cleared
ClearBothTimerOnly == { t \in timers : t.id /= weeklyTimerRef }

\* if (weeklyTimerRef.current) clearTimeout(weeklyTimerRef.current);
\* if (weeklyIntervalRef.current) clearInterval(weeklyIntervalRef.current);
\* the timers left pending (either call clears a handle of either kind)
ClearBoth == { t \in timers : t.id \notin { weeklyTimerRef, weeklyIntervalRef } }

\* scheduleWeekly(list): clear both handles, arm the one-shot timer
scheduleWeekly(list) ==
    LET h == NewHandle(ClearBoth) IN
    /\ timers' = ClearBoth \cup
                    { Timeout(h, list, clock, msUntilNextSunday(clock)) }
    /\ weeklyTimerRef' = h
    /\ UNCHANGED weeklyIntervalRef

\* mutation: the else branch clears the one-shot timer only
DisarmTimerOnly ==
    /\ timers' = { t \in timers : t.id /= weeklyTimerRef }
    /\ UNCHANGED << weeklyTimerRef, weeklyIntervalRef >>

\* the else branch of the scheduling effect, and its cleanup
Disarm ==
    /\ timers' = ClearBoth
    /\ UNCHANGED << weeklyTimerRef, weeklyIntervalRef >>

\* mutation: the effect has no else branch and no cleanup
SchedulingEffectNoDisarm(en, perm, list) ==
    IF en /\ perm = "granted" THEN scheduleWeekly(list) ELSE UNCHANGED schedVars

\* the body of the scheduling effect after the cache write; the cleanup of
\* the previous run clears the same two handles first
SchedulingEffect(en, perm, list) ==
    IF en /\ perm = "granted" THEN scheduleWeekly(list) ELSE Disarm

\* mutation: the effect has no dependency list and runs after every render
EffectAlways(en, perm, list) ==
    SchedulingEffect(en, perm, list)

\* the effect runs after a render only when one of its dependencies
\* [notifEnabled, notifPermission] changed
EffectIfDepsChanged(en, perm, list) ==
    IF en = notifEnabled /\ perm = notifPermission
    THEN UNCHANGED schedVars
    ELSE SchedulingEffect(en, perm, list)

\* NOTIF_ENABLED_KEY after a handler wrote handlerWrite and the render that
\* follows: the effect, when it runs, writes String(notifEnabled) last
NotifCacheAfter(handlerWrite, en, perm) ==
    IF en = notifEnabled /\ perm = notifPermission
    THEN handlerWrite
    ELSE StringOfBool(en)

(* ------------------------------- Init --------------------------------- *)

IdleLoad ==
    [st |-> "idle", series |-> "none", list |-> <<>>, settings |-> "none", row |-> NoRow]

\* load() finished, and load() whose Promise.all rejected: the answer of the
\* other fetch no longer matters
DoneLoad == [IdleLoad EXCEPT !.st = "done"]

RejectedLoad == [IdleLoad EXCEPT !.st = "fetching", !.series = "err", !.settings = "err"]

IdleCheck == [st |-> "idle", list |-> <<>>, now |-> NoTimestamp]

\* runAutoCheck keeps the lookup's answer in its local `data`
IdleAuto == [st |-> "idle", list |-> <<>>, now |-> NoTimestamp, data |-> NoResult]

IdleToggle == [st |-> "idle", next |-> FALSE]

NoEvent == [op |-> "none", name |-> <<>>]

Event(op, name) == [op |-> op, name |-> name]

\* history: local storage has not been cleared
NotCleared == [cleared |-> FALSE, synced |-> FALSE, list |-> <<>>,
               notif |-> FALSE, last |-> NoTimestamp]

\* lists without repetition over Names, at most n long
UniqueLists(n) ==
    { l \in UNION { [1..k -> Names] : k \in 0..n } :
        \A i, j \in 1..Len(l) : i /= j => l[i] /= l[j] }

\* the useState initialisers, reading the cache
InitialRender ==
    /\ seriesList = ParseStoredList(cacheList)
    /\ lastChecked = cacheLast
    /\ notifEnabled = ParseStoredBool(cacheNotif)
    /\ dbLoading = TRUE
    /\ syncError = FALSE
    /\ loading = FALSE
    /\ result = NoResult
    /\ error = NoError

\* first page load of a fresh browser profile, at any hour before the last
\* Sunday; the gateway may already hold data written from elsewhere
Init ==
    /\ isSupabaseAvailable \in BOOLEAN
    /\ phase = "render"
    /\ cacheList = Absent
    /\ cacheLast = NoTimestamp
    /\ cacheNotif = Absent
    /\ InitialRender
    /\ permission \in { "unsupported", "default", "denied", "granted" }
    /\ notifPermission = permission
    /\ notifications = <<>>
    /\ gwList \in (IF isSupabaseAvailable THEN UniqueLists(1) ELSE { <<>> })
    /\ gwSettings \in (IF isSupabaseAvailable
                       THEN { NoRow,
                              [present |-> TRUE, notif_enabled |-> FALSE,
                               last_checked_at |-> NoTimestamp],
                              [present |-> TRUE, notif_enabled |-> TRUE,
                               last_checked_at |-> 1] }
                       ELSE { NoRow })
    /\ inflight = EmptyBag
    /\ pcLoad = IdleLoad
    /\ pcCheck = IdleCheck
    /\ pcAuto = IdleAuto
    /\ pcToggle = IdleToggle
    /\ weeklyTimerRef = NoHandle
    /\ weeklyIntervalRef = NoHandle
    /\ timers = {}
    /\ clock \in 0..LastSunday
    /\ lastEvent = NoEvent
    /\ beforeClear = NotCleared

(* ------------------------- write-through writes ----------------------- *)

\* mutation: the list reaches the state but not the cache
StoreListMemoryOnly(next) ==
    /\ seriesList' = next
    /\ UNCHANGED cacheList

\* setSeriesList(next); localStorage.setItem(STORAGE_KEY, JSON.stringify(next))
StoreList(next) ==
    /\ seriesList' = next
    /\ cacheList' = JSONstringify(next)

\* setLastChecked(now); localStorage.setItem(LAST_CHECK_KEY, now)
StoreLastChecked(now) ==
    /\ lastChecked' = now
    /\ cacheLast' = now

(* ----------------------------- page load ------------------------------ *)

\* history: the name whose add was the last store operation before this
\* load() starts and whose gateway call has settled, <<>> otherwise
AddedBefore ==
    IF lastEvent.op = "add" /\ inflight = EmptyBag THEN lastEvent.name ELSE <<>>

\* mutation: load() starts its fetches without looking at the client
LoadEffectNoGuard ==
    /\ phase = "render"
    /\ phase' = "loadEffect"
    /\ pcLoad' = [IdleLoad EXCEPT !.st = "fetching",
                                  !.series = "pending",
                                  !.settings = "pending"]
    /\ lastEvent' = Event("loadStart", <<>>)
    /\ UNCHANGED << isSupabaseAvailable, beforeClear, permission, notifications,
                    memVars, notifPermission, dbLoading,
                    syncError, uiVars, cacheVars, gwVars, inflight, pcCheck,
                    pcAuto, pcToggle, schedVars, clock >>

\* the first effect of the mounted component: start load(), or give up at
\* once when no gateway client exists
LoadEffect ==
    /\ phase = "render"
    /\ phase' = "loadEffect"
    /\ IF ~isSupabaseAvailable
       THEN /\ dbLoading' = FALSE
            /\ pcLoad' = DoneLoad
            /\ lastEvent' = Event("loadOffline", AddedBefore)
       ELSE /\ pcLoad' = [IdleLoad EXCEPT !.st = "fetching",
                                          !.series = "pending",
                                          !.settings = "pending"]
            /\ lastEvent' = Event("loadStart", AddedBefore)
            /\ UNCHANGED dbLoading
    /\ UNCHANGED << isSupabaseAvailable, beforeClear, permission, notifications,
                    memVars, notifPermission, syncError,
                    uiVars, cacheVars, gwVars, inflight, pcCheck, pcAuto,
                    pcToggle, schedVars, clock >>

\* the second effect, run on mount: write the flag to the cache and arm or
\* clear the weekly timers
MountSchedulingEffect ==
    /\ phase = "loadEffect"
    /\ phase' = "mounted"
    /\ cacheNotif' = StringOfBool(notifEnabled)
    /\ SchedulingEffect(notifEnabled, notifPermission, seriesList)
    /\ UNCHANGED << isSupabaseAvailable, beforeClear, permission, notifications,
                    memVars, notifPermission, dbLoading,
                    syncError, uiVars, cacheList, cacheLast, gwVars, inflight,
                    pcLoad, pcCheck, pcAuto, pcToggle, clock, lastEvent >>

\* fetchSeries() answered by the gateway, or failing
GatewayListSeries ==
    /\ pcLoad.st = "fetching"
    /\ pcLoad.series = "pending"
    /\ \/ pcLoad' = [pcLoad EXCEPT !.series = "ok", !.list = gwList]
       \/ pcLoad' = RejectedLoad
    /\ UNCHANGED << isSupabaseAvailable, beforeClear, permission, notifications,
                    phase, memVars, notifPermission,
                    dbLoading, syncError, uiVars, cacheVars, gwVars, inflight,
                    pcCheck, pcAuto, pcToggle, schedVars, clock, lastEvent >>

\* fetchSettings() answered by the gateway (null when there is no row), or
\* failing
GatewayGetSettings ==
    /\ pcLoad.st = "fetching"
    /\ pcLoad.settings = "pending"
    /\ \/ pcLoad' = [pcLoad EXCEPT !.settings = "ok", !.row = gwSettings]
       \/ pcLoad' = RejectedLoad
    /\ UNCHANGED << isSupabaseAvailable, beforeClear, permission, notifications,
                    phase, memVars, notifPermission,
                    dbLoading, syncError, uiVars, cacheVars, gwVars, inflight,
                    pcCheck, pcAuto, pcToggle, schedVars, clock, lastEvent >>

\* what load() stores of the fetched settings: the flag when there is a
\* row, the timestamp when the row has one
LoadedNotif(settings) ==
    IF settings.present THEN settings.notif_enabled ELSE notifEnabled

\* mutation: the fetched timestamp is stored even when it is null
LoadedLastCheckedAlways(settings) ==
    IF settings.present THEN settings.last_checked_at ELSE lastChecked

LoadedLastChecked(settings) ==
    IF settings.present /\ settings.last_checked_at /= NoTimestamp
    THEN settings.last_checked_at
    ELSE lastChecked

\* the try block of load() after both fetches resolved
LoadSucceed ==
    /\ phase = "mounted"
    /\ pcLoad.st = "fetching"
    /\ pcLoad.series = "ok"
    /\ pcLoad.settings = "ok"
    /\ StoreList(pcLoad.list)
    /\ notifEnabled' = LoadedNotif(pcLoad.row)
    /\ cacheNotif' = IF pcLoad.row.present
                     THEN NotifCacheAfter(StringOfBool(pcLoad.row.notif_enabled),
                                          notifEnabled', notifPermission)
                     ELSE cacheNotif
    /\ lastChecked' = LoadedLastChecked(pcLoad.row)
    /\ cacheLast' = IF pcLoad.row.present /\ pcLoad.row.last_checked_at /= NoTimestamp
                    THEN pcLoad.row.last_checked_at
                    ELSE cacheLast
    /\ dbLoading' = FALSE
    /\ EffectIfDepsChanged(notifEnabled', notifPermission, seriesList')
    /\ pcLoad' = DoneLoad
    /\ lastEvent' = Event("loadOk", <<>>)
    /\ UNCHANGED << isSupabaseAvailable, beforeClear, permission, notifications,
                    phase, notifPermission, syncError,
                    uiVars, gwVars, inflight, pcCheck, pcAuto, pcToggle, clock >>

\* mutation: the loading indicator is cleared on the success path only
LoadFailKeepsSpinner ==
    /\ phase = "mounted"
    /\ pcLoad = RejectedLoad
    /\ syncError' = TRUE
    /\ pcLoad' = DoneLoad
    /\ lastEvent' = Event("loadErr", <<>>)
    /\ UNCHANGED << isSupabaseAvailable, beforeClear, permission, notifications,
                    phase, memVars, notifPermission,
                    dbLoading, uiVars, cacheVars, gwVars, inflight, pcCheck,
                    pcAuto, pcToggle, schedVars, clock >>

\* the catch block of load(): Promise.all rejects as soon as one fetch does
LoadFail ==
    /\ phase = "mounted"
    /\ pcLoad = RejectedLoad
    /\ syncError' = TRUE
    /\ dbLoading' = FALSE
    /\ pcLoad' = DoneLoad
    /\ lastEvent' = Event("loadErr", <<>>)
    /\ UNCHANGED << isSupabaseAvailable, beforeClear, permission, notifications,
                    phase, memVars, notifPermission,
                    uiVars, cacheVars, gwVars, inflight, pcCheck, pcAuto,
                    pcToggle, schedVars, clock >>

\* the user reloads the page: a new session starts from the cache
Reload ==
    /\ phase = "mounted"
    /\ phase' = "render"
    /\ seriesList' = ParseStoredList(cacheList)
    /\ lastChecked' = cacheLast
    /\ notifEnabled' = ParseStoredBool(cacheNotif)
    /\ dbLoading' = TRUE
    /\ syncError' = FALSE
    /\ loading' = FALSE
    /\ result' = NoResult
    /\ error' = NoError
    /\ pcLoad' = IdleLoad
    /\ pcCheck' = IdleCheck
    /\ pcAuto' = IdleAuto
    /\ pcToggle' = IdleToggle
    /\ weeklyTimerRef' = NoHandle
    /\ weeklyIntervalRef' = NoHandle
    /\ timers' = {}
    /\ notifPermission' = permission
    /\ notifications' = <<>>
    /\ UNCHANGED << isSupabaseAvailable, beforeClear, permission, cacheVars, gwVars,
                    inflight, clock, lastEvent >>

(* ---------------------------- add / remove ---------------------------- *)

\* mutation: only the empty name is rejected
AddRejectedEmptyOnly(list, trimmed) == trimmed = <<>>

\* if (!trimmed || seriesList.includes(trimmed)) return;
AddRejected(list, trimmed) == trimmed = <<>> \/ Includes(list, trimmed)

\* const next = [...seriesList, trimmed];
AddNext(list, trimmed) == Append(list, trimmed)

handleAdd(inputValue) ==
    LET trimmed == Trim(inputValue) IN
    /\ phase = "mounted"
    /\ IF AddRejected(seriesList, trimmed)
       THEN /\ lastEvent' = Event("addRejected", trimmed)
            /\ UNCHANGED << seriesList, cacheList, inflight >>
       ELSE /\ CanSend
            /\ StoreList(AddNext(seriesList, trimmed))
            /\ inflight' = Send(Req("addSeries", trimmed, FALSE))
            /\ lastEvent' = Event("add", trimmed)
    /\ UNCHANGED << isSupabaseAvailable, beforeClear, permission, notifications,
                    phase, lastChecked, notifEnabled,
                    notifPermission, dbLoading, syncError, uiVars, cacheLast,
                    cacheNotif, gwVars, pcLoad, pcCheck, pcAuto, pcToggle,
                    schedVars, clock >>

\* mutation: removal by splice(indexOf(name), 1), which drops the last
\* element when the name is not found
RemoveNextSplice(list, name) ==
    IF Includes(list, name) THEN FilterOut(list, name)
    ELSE IF list = <<>> THEN <<>>
    ELSE SubSeq(list, 1, Len(list) - 1)

\* const next = seriesList.filter(s => s !== name);
RemoveNext(list, name) == FilterOut(list, name)

handleRemove(name) ==
    /\ phase = "mounted"
    /\ CanSend
    /\ StoreList(RemoveNext(seriesList, name))
    /\ inflight' = Send(Req("removeSeries", name, FALSE))
    /\ lastEvent' = Event(IF Includes(seriesList, name) THEN "remove" ELSE "removeAbsent",
                          name)
    /\ UNCHANGED << isSupabaseAvailable, beforeClear, permission, notifications,
                    phase, lastChecked, notifEnabled,
                    notifPermission, dbLoading, syncError, uiVars, cacheLast,
                    cacheNotif, gwVars, pcLoad, pcCheck, pcAuto, pcToggle,
                    schedVars, clock >>

(* ----------------------- gateway write outcomes ----------------------- *)

\* mutation: the rejection of a gateway write is shown as an error
WriteRejectedSurfaced ==
    /\ error' = CheckFailedMessage
    /\ UNCHANGED << memVars, cacheVars, loading, result, syncError >>

\* the catch blocks after addSeries / removeSeries / saveSettings: empty
WriteRejected ==
    UNCHANGED << memVars, cacheVars, uiVars, syncError >>

\* the gateway applies a write that is in flight
GatewayWriteOk ==
    \E req \in BagToSet(inflight) :
        /\ req.op = "addSeries" => Len(gwList) < MaxRows
        /\ ApplyWrite(req)
        /\ inflight' = inflight (-) SetToBag({req})
        /\ UNCHANGED << isSupabaseAvailable, beforeClear, permission, notifications,
                        phase, memVars, notifPermission,
                        dbLoading, syncError, uiVars, cacheVars, pcLoad,
                        pcCheck, pcAuto, pcToggle, schedVars, clock, lastEvent >>

\* a write in flight fails; the handler swallows the rejection
GatewayWriteFail ==
    \E req \in BagToSet(inflight) :
        /\ inflight' = inflight (-) SetToBag({req})
        /\ WriteRejected
        /\ UNCHANGED << isSupabaseAvailable, beforeClear, permission, notifications,
                        phase, notifPermission, dbLoading,
                        gwVars, pcLoad, pcCheck, pcAuto, pcToggle, schedVars,
                        clock, lastEvent >>

(* ------------------------------- clock -------------------------------- *)

\* an hour passes in which no timer is due
Tick ==
    /\ clock % Week < MaxTime
    /\ \A t \in timers : t.due > clock
    /\ clock' = clock + 1
    /\ UNCHANGED << isSupabaseAvailable, beforeClear, permission, notifications,
                    phase, memVars, notifPermission,
                    dbLoading, syncError, uiVars, cacheVars, gwVars, inflight,
                    pcLoad, pcCheck, pcAuto, pcToggle, schedVars, lastEvent >>

(* --------------------------- manual check ----------------------------- *)

\* handleCheck up to its first await
handleCheck ==
    /\ phase = "mounted"
    /\ pcCheck.st = "idle"
    /\ IF seriesList = <<>>
       THEN /\ UNCHANGED lastEvent
            /\ UNCHANGED << uiVars, pcCheck >>
       ELSE /\ loading' = TRUE
            /\ result' = NoResult
            /\ error' = NoError
            /\ pcCheck' = [st |-> "lookup", list |-> seriesList, now |-> NoTimestamp]
            /\ UNCHANGED lastEvent
    /\ UNCHANGED << isSupabaseAvailable, beforeClear, permission, notifications,
                    phase, memVars, notifPermission,
                    dbLoading, syncError, cacheVars, gwVars, inflight, pcLoad,
                    pcAuto, pcToggle, schedVars, clock >>

\* checkNewEpisodes resolved, the provider having answered one of
\* `responses`: record the result and the check time, then await saveSettings
CheckResolved(responses) ==
    /\ pcCheck.st = "lookup"
    /\ \E response \in responses : result' = checkNewEpisodes(response)
    /\ StoreLastChecked(clock)
    /\ pcCheck' = [pcCheck EXCEPT !.st = "saving", !.list = <<>>, !.now = clock]
    /\ UNCHANGED lastEvent
    /\ UNCHANGED << isSupabaseAvailable, beforeClear, permission, notifications,
                    phase, seriesList, notifEnabled,
                    notifPermission, dbLoading, syncError, loading, error,
                    cacheList, cacheNotif, gwVars, inflight, pcLoad, pcAuto,
                    pcToggle, schedVars, clock >>

CheckLookupOk == CheckResolved(LookupTexts)

\* the same, for whatever the provider may answer
CheckLookupAny == CheckResolved(ProviderResponses)

\* the same, for every text of the parser's and the classifier's input sets
CheckLookupText == CheckResolved(DisplayTexts)

\* mutation: the failure of a manual check ends the spinner and says nothing
CheckLookupFailSilent ==
    /\ pcCheck.st = "lookup"
    /\ loading' = FALSE
    /\ pcCheck' = IdleCheck
    /\ UNCHANGED << isSupabaseAvailable, beforeClear, permission, notifications, phase,
                    memVars, notifPermission, dbLoading, syncError, result,
                    error, cacheVars, gwVars, inflight, pcLoad, pcAuto,
                    pcToggle, schedVars, clock, lastEvent >>

\* checkNewEpisodes rejected: inline error
CheckLookupFail ==
    /\ pcCheck.st = "lookup"
    /\ error' = CheckFailedMessage
    /\ loading' = FALSE
    /\ pcCheck' = IdleCheck
    /\ UNCHANGED lastEvent
    /\ UNCHANGED << isSupabaseAvailable, beforeClear, permission, notifications,
                    phase, memVars, notifPermission,
                    dbLoading, syncError, result, cacheVars, gwVars, inflight,
                    pcLoad, pcAuto, pcToggle, schedVars, clock >>

\* saveSettings({ last_checked_at: now }) settled, either way; finally
CheckSaveSettled ==
    /\ pcCheck.st = "saving"
    /\ \/ /\ isSupabaseAvailable
          /\ gwSettings' = UpsertLastChecked(gwSettings, pcCheck.now)
       \/ UNCHANGED gwSettings
    /\ loading' = FALSE
    /\ pcCheck' = IdleCheck
    /\ UNCHANGED << isSupabaseAvailable, beforeClear, permission, notifications,
                    phase, memVars, notifPermission,
                    dbLoading, syncError, result, error, cacheVars, gwList,
                    inflight, pcLoad, pcAuto, pcToggle, schedVars, clock,
                    lastEvent >>

(* ------------------------- scheduled check ---------------------------- *)

\* mutation: the gate asks the permission the component tracks
sendBrowserNotificationTracked(title, body) ==
    [title |-> title, body |-> body, shown |-> notifPermission = "granted"]

\* sendBrowserNotification: the attempt, and whether a Notification was made
sendBrowserNotification(title, body) ==
    [title |-> title, body |-> body,
     shown |-> permission /= "unsupported" /\ permission = "granted"]

WeeklyUpdateTitle == << "PopCulture Pal - Weekly Update" >>
NoNewsBody == << "No new episodes or seasons this week." >>
FailureTitle == << "PopCulture Pal" >>
FailureBody == << "Weekly check failed. Open the app to retry." >>

\* `${goodNews.length} series have news: ${goodNews.map(s => s.title).join(', ')}`
SummaryBody(goodNews) ==
    << ToString(Len(goodNews)), SP, "series have news:", SP >>
        \o JoinTitles([i \in 1..Len(goodNews) |-> goodNews[i].title])

\* mutation: the status line, without the badge to fall back on
statusLineOrNothing(s) ==
    LET lines == SplitLines(s.body)
        found == { i \in 1..Len(lines) : StartsWith(lines[i], StatusPrefix) }
    IN  IF found = {} THEN <<>>
        ELSE lines[CHOOSE i \in found : \A j \in found : i <= j]

\* s.body.split('\n').find(l => l.startsWith('Status:')) || meta.badge
statusLine(s) ==
    LET lines == SplitLines(s.body)
        found == { i \in 1..Len(lines) : StartsWith(lines[i], StatusPrefix) }
    IN  IF found = {} THEN getStatusMeta(s.body).badge
        ELSE lines[CHOOSE i \in found : \A j \in found : i <= j]

\* sections.filter(s => getStatusMeta(s.body).isGoodNews)
GoodNews(sections) ==
    SelectSeq(sections, LAMBDA s : getStatusMeta(s.body).isGoodNews)

\* mutation: a week without news is passed over in silence
AutoNotificationsSilent(data) ==
    LET goodNews == GoodNews(parseResultSections(data)) IN
    IF Len(goodNews) > 0
    THEN << sendBrowserNotification(WeeklyUpdateTitle, SummaryBody(goodNews)) >>
         \o [i \in 1..Len(goodNews) |->
                sendBrowserNotification(goodNews[i].title,
                    Trim(Replace(statusLine(goodNews[i]), StatusPrefix, <<>>)))]
    ELSE <<>>

\* what runAutoCheck sends after a lookup that succeeded
AutoNotifications(data) ==
    LET goodNews == GoodNews(parseResultSections(data)) IN
    IF Len(goodNews) > 0
    THEN << sendBrowserNotification(WeeklyUpdateTitle, SummaryBody(goodNews)) >>
         \o [i \in 1..Len(goodNews) |->
                sendBrowserNotification(goodNews[i].title,
                    Trim(Replace(statusLine(goodNews[i]), StatusPrefix, <<>>)))]
    ELSE << sendBrowserNotification(WeeklyUpdateTitle, NoNewsBody) >>

\* mutation: the check is started whatever the list
runAutoCheckNoGuard(list) ==
    /\ pcAuto' = [st |-> "lookup", list |-> list, now |-> NoTimestamp,
                  data |-> NoResult]
    /\ notifications' = <<>>

\* runAutoCheck(list) up to its first await
runAutoCheck(list) ==
    IF list = <<>>
    THEN UNCHANGED << pcAuto, notifications >>
    ELSE /\ pcAuto' = [st |-> "lookup", list |-> list, now |-> NoTimestamp,
                       data |-> NoResult]
         /\ notifications' = <<>>

\* mutation: the interval is armed with a period of six days
WeeklyIntervalSixDays(id, list, now) ==
    Interval(id, list, now, 6 * 24)

\* setInterval(() => runAutoCheck(list), 7 * 24 * 60 * 60 * 1000)
WeeklyInterval(id, list, now) ==
    Interval(id, list, now, Week)

\* the timer the platform fires next, when its instant comes
IsDue(t) ==
    /\ t \in timers
    /\ t.due >= clock
    /\ t.due <= Horizon
    /\ \A u \in timers : u.due >= t.due

\* the one-shot timer fires: run the check and start the weekly interval
\* (a check takes less than a week: the previous one has finished)
TimerFire ==
    \E t \in timers :
        /\ t.kind = "timeout"
        /\ IsDue(t)
        /\ pcAuto.st = "idle"
        /\ clock' = t.due
        /\ runAutoCheck(t.list)
        /\ LET h == NewHandle(timers \ {t}) IN
             /\ timers' = (timers \ {t}) \cup { WeeklyInterval(h, t.list, t.due) }
             /\ weeklyIntervalRef' = h
        /\ UNCHANGED << isSupabaseAvailable, beforeClear, permission, phase, memVars,
                        notifPermission, dbLoading, syncError, uiVars,
                        cacheVars, gwVars, inflight, pcLoad, pcCheck,
                        pcToggle, weeklyTimerRef, lastEvent >>

\* the weekly interval fires, and stays pending for the next period
IntervalFire ==
    \E t \in timers :
        /\ t.kind = "interval"
        /\ IsDue(t)
        /\ pcAuto.st = "idle"
        /\ clock' = t.due
        /\ runAutoCheck(t.list)
        /\ timers' = (timers \ {t}) \cup { [t EXCEPT !.due = t.due + t.ms] }
        /\ UNCHANGED << isSupabaseAvailable, beforeClear, permission, phase, memVars,
                        notifPermission, dbLoading, syncError, uiVars,
                        cacheVars, gwVars, inflight, pcLoad, pcCheck,
                        pcToggle, weeklyTimerRef, weeklyIntervalRef,
                        lastEvent >>

\* checkNewEpisodes resolved in runAutoCheck, the provider having answered
\* one of `responses`
AutoResolved(responses) ==
    /\ pcAuto.st = "lookup"
    /\ \E response \in responses :
        /\ result' = checkNewEpisodes(response)
        /\ pcAuto' = [pcAuto EXCEPT !.st = "saving", !.list = <<>>,
                                    !.now = clock,
                                    !.data = checkNewEpisodes(response)]
    /\ StoreLastChecked(clock)
    /\ UNCHANGED lastEvent
    /\ UNCHANGED << isSupabaseAvailable, beforeClear, permission, notifications,
                    phase, seriesList, notifEnabled,
                    notifPermission, dbLoading, syncError, loading, error,
                    cacheList, cacheNotif, gwVars, inflight, pcLoad, pcCheck,
                    pcToggle, schedVars, clock >>

AutoLookupOk == AutoResolved(LookupTexts)

\* the same, for whatever the provider may answer
AutoLookupAny == AutoResolved(ProviderResponses)

\* mutation: the failure of a scheduled check is shown inline, like that of
\* a manual one
AutoLookupFailInline ==
    /\ pcAuto.st = "lookup"
    /\ error' = CheckFailedMessage
    /\ notifications' = <<>>
    /\ pcAuto' = IdleAuto
    /\ UNCHANGED << isSupabaseAvailable, beforeClear, permission, phase, memVars,
                    notifPermission, dbLoading, syncError, loading, result,
                    cacheVars, gwVars, inflight, pcLoad, pcCheck, pcToggle,
                    schedVars, clock, lastEvent >>

\* checkNewEpisodes rejected in runAutoCheck: the catch block
AutoLookupFail ==
    /\ pcAuto.st = "lookup"
    /\ notifications' = << sendBrowserNotification(FailureTitle, FailureBody) >>
    /\ pcAuto' = IdleAuto
    /\ UNCHANGED << isSupabaseAvailable, beforeClear, permission, phase, memVars,
                    notifPermission, dbLoading, syncError, uiVars, cacheVars,
                    gwVars, inflight, pcLoad, pcCheck, pcToggle, schedVars,
                    clock, lastEvent >>

\* saveSettings({ last_checked_at: now }) settled in runAutoCheck, either
\* way: parse the report and notify
AutoSaveSettled ==
    /\ pcAuto.st = "saving"
    /\ \/ /\ isSupabaseAvailable
          /\ gwSettings' = UpsertLastChecked(gwSettings, pcAuto.now)
       \/ UNCHANGED gwSettings
    /\ notifications' = AutoNotifications(pcAuto.data)
    /\ pcAuto' = IdleAuto
    /\ UNCHANGED << isSupabaseAvailable, beforeClear, permission, phase, memVars,
                    notifPermission, dbLoading, syncError, uiVars, cacheVars,
                    gwList, inflight, pcLoad, pcCheck, pcToggle, schedVars,
                    clock, lastEvent >>

(* ----------------------- notification toggle -------------------------- *)

\* mutation: the flag is stored, cached and saved, and the timers are left
\* as they are
ToggleApplyNoEffect(next, perm) ==
    /\ CanSend
    /\ notifEnabled' = next
    /\ cacheNotif' = StringOfBool(next)
    /\ inflight' = Send(Req("saveNotif", <<>>, next))
    /\ UNCHANGED schedVars

\* the tail of handleToggleNotifications: store the flag, cache it, save it
ToggleApply(next, perm) ==
    /\ CanSend
    /\ notifEnabled' = next
    /\ cacheNotif' = NotifCacheAfter(StringOfBool(next), next, perm)
    /\ inflight' = Send(Req("saveNotif", <<>>, next))
    /\ EffectIfDepsChanged(next, perm, seriesList)

\* handleToggleNotifications up to its first await
handleToggleNotifications ==
    LET next == ~notifEnabled IN
    /\ phase = "mounted"
    /\ pcToggle.st = "idle"
    /\ IF notifPermission = "unsupported"
       THEN /\ UNCHANGED lastEvent
            /\ UNCHANGED << notifEnabled, cacheNotif, inflight, schedVars, pcToggle >>
       ELSE IF next /\ notifPermission /= "granted"
       THEN /\ pcToggle' = [st |-> "requesting", next |-> next]
            /\ UNCHANGED lastEvent
            /\ UNCHANGED << notifEnabled, cacheNotif, inflight, schedVars >>
       ELSE /\ ToggleApply(next, notifPermission)
            /\ UNCHANGED lastEvent
            /\ UNCHANGED pcToggle
    /\ UNCHANGED << isSupabaseAvailable, beforeClear, permission, notifications,
                    phase, seriesList, lastChecked,
                    notifPermission, dbLoading, syncError, uiVars, cacheList,
                    cacheLast, gwVars, pcLoad, pcCheck, pcAuto, clock >>

\* mutation: the switch is disabled only where notifications do not exist
ToggleDisabledUnsupportedOnly == notifPermission = "unsupported"

\* disabled={notifPermission === 'unsupported' || notifPermission === 'denied'}
ToggleDisabled == notifPermission \in { "unsupported", "denied" }

\* the user clicks the switch
ToggleClick == ~ToggleDisabled /\ handleToggleNotifications

\* what Notification.requestPermission() may resolve to
PermissionAnswers ==
    IF permission = "default" THEN { "granted", "denied", "default" }
    ELSE { permission }

\* mutation: only an explicit denial stops the handler
RequestRefusedDeniedOnly(res) == res = "denied"

\* if (res !== 'granted') return;
RequestRefused(res) == res /= "granted"

\* Notification.requestPermission() resolved
PermissionAnswered ==
    \E res \in PermissionAnswers :
        /\ pcToggle.st = "requesting"
        /\ permission' = res
        /\ notifPermission' = res
        /\ IF RequestRefused(res)
           THEN /\ EffectIfDepsChanged(notifEnabled, res, seriesList)
                /\ cacheNotif' = NotifCacheAfter(cacheNotif, notifEnabled, res)
                /\ UNCHANGED lastEvent
                /\ UNCHANGED << notifEnabled, inflight >>
           ELSE /\ ToggleApply(pcToggle.next, res)
                /\ UNCHANGED lastEvent
        /\ pcToggle' = IdleToggle
        /\ UNCHANGED << isSupabaseAvailable, beforeClear, notifications,
                        phase, seriesList, lastChecked,
                        dbLoading, syncError, uiVars, cacheList, cacheLast,
                        gwVars, pcLoad, pcCheck, pcAuto, clock >>

\* the user changes the site's notification permission in the browser's
\* settings; the component is not told
SitePermissionChanged ==
    /\ permission /= "unsupported"
    /\ \E p \in { "default", "denied", "granted" } \ { permission } :
          permission' = p
    /\ UNCHANGED << isSupabaseAvailable, beforeClear, notifications, phase, memVars,
                    notifPermission, dbLoading, syncError, uiVars, cacheVars,
                    gwVars, inflight, pcLoad, pcCheck, pcAuto, pcToggle,
                    schedVars, clock, lastEvent >>

(* ------------------------------- Next --------------------------------- *)

Add == \E inputValue \in Inputs : handleAdd(inputValue)

Remove == \E name \in Names : handleRemove(name)

Next ==
    \/ LoadEffect
    \/ MountSchedulingEffect
    \/ GatewayListSeries
    \/ GatewayGetSettings
    \/ LoadSucceed
    \/ LoadFail
    \/ Reload
    \/ Add
    \/ Remove
    \/ GatewayWriteOk
    \/ GatewayWriteFail
    \/ handleCheck
    \/ CheckLookupOk
    \/ CheckLookupFail
    \/ CheckSaveSettled
    \/ TimerFire
    \/ IntervalFire
    \/ AutoLookupOk
    \/ AutoLookupFail
    \/ AutoSaveSettled
    \/ ToggleClick
    \/ PermissionAnswered
    \/ SitePermissionChanged
    \/ Tick

\* the whole component; the properties are checked on the slices
\* below, each a set of behaviours of Spec
Spec == Init /\ [][Next]_vars

\* the list: load(), add, remove, the gateway writes and page reloads, in a
\* browser that has not been asked for the notification permission
StoreInit ==
    /\ Init
    /\ clock = LastSunday
    /\ notifPermission = "default"
    /\ gwSettings.present = gwSettings.notif_enabled

StoreNext ==
    \/ LoadEffect
    \/ MountSchedulingEffect
    \/ GatewayListSeries
    \/ GatewayGetSettings
    \/ LoadSucceed
    \/ LoadFail
    \/ Reload
    \/ Add
    \/ Remove
    \/ GatewayWriteOk
    \/ GatewayWriteFail

StoreSpec == StoreInit /\ [][StoreNext]_vars

\* the four mutations (add, remove, toggle, record a check by a manual or a
\* scheduled check) of one session in which the user tracks one series,
\* against a gateway that starts empty and has not answered load() yet,
\* in the week in which the one-shot timer fires last
MutationInit == Init /\ clock = LastSunday /\ gwList = <<>> /\ gwSettings = NoRow

AddOneName == \E inputValue \in { <<>>, NameA, <<SP, "a">> } : handleAdd(inputValue)

RemoveOneName == handleRemove(NameA)

MutationNext ==
    \/ LoadEffect
    \/ MountSchedulingEffect
    \/ AddOneName
    \/ RemoveOneName
    \/ GatewayWriteOk
    \/ GatewayWriteFail
    \/ handleCheck
    \/ CheckLookupOk
    \/ CheckLookupFail
    \/ CheckSaveSettled
    \/ TimerFire
    \/ AutoLookupOk
    \/ AutoLookupFail
    \/ AutoSaveSettled
    \/ ToggleClick
    \/ PermissionAnswered

MutationSpec == MutationInit /\ [][MutationNext]_vars

\* settings and checks: load(), manual and scheduled checks, the toggle and
\* page reloads, over the list the gateway holds, in the week in which the
\* one-shot timer fires last
SettingsNext ==
    \/ LoadEffect
    \/ MountSchedulingEffect
    \/ GatewayListSeries
    \/ GatewayGetSettings
    \/ LoadSucceed
    \/ LoadFail
    \/ Reload
    \/ GatewayWriteOk
    \/ GatewayWriteFail
    \/ handleCheck
    \/ CheckLookupOk
    \/ CheckLookupFail
    \/ CheckSaveSettled
    \/ TimerFire
    \/ AutoLookupOk
    \/ AutoLookupFail
    \/ AutoSaveSettled
    \/ ToggleClick
    \/ PermissionAnswered
    \/ Tick

SettingsInit == Init /\ clock = LastSunday

SettingsSpec == SettingsInit /\ [][SettingsNext]_vars

\* the weekly scheduler: the page is opened at any hour of the first week
\* against a gateway that holds one series; the toggle, the permission
\* prompt, the timers and the scheduled checks, load() and page reloads
SchedulerInit ==
    /\ Init
    /\ clock < Week
    /\ isSupabaseAvailable
    /\ gwList = << NameA >>

SchedulerNext ==
    \/ LoadEffect
    \/ MountSchedulingEffect
    \/ GatewayListSeries
    \/ GatewayGetSettings
    \/ LoadSucceed
    \/ LoadFail
    \/ Reload
    \/ GatewayWriteOk
    \/ GatewayWriteFail
    \/ TimerFire
    \/ IntervalFire
    \/ AutoLookupOk
    \/ AutoLookupFail
    \/ AutoSaveSettled
    \/ ToggleClick
    \/ PermissionAnswered
    \/ Tick

SchedulerSpec == SchedulerInit /\ [][SchedulerNext]_vars

\* manual and scheduled checks and their notifications, for every answer of
\* the provider, in a browser whose site permission the user may change
NotifyInit ==
    /\ Init
    /\ clock = LastSunday
    /\ isSupabaseAvailable
    /\ gwList = << NameA >>
    /\ gwSettings /= NoRow

NotifyNext ==
    \/ LoadEffect
    \/ MountSchedulingEffect
    \/ GatewayListSeries
    \/ GatewayGetSettings
    \/ LoadSucceed
    \/ LoadFail
    \/ GatewayWriteOk
    \/ GatewayWriteFail
    \/ handleCheck
    \/ CheckLookupAny
    \/ CheckLookupFail
    \/ CheckSaveSettled
    \/ TimerFire
    \/ AutoLookupAny
    \/ AutoLookupFail
    \/ AutoSaveSettled
    \/ ToggleClick
    \/ PermissionAnswered
    \/ SitePermissionChanged

NotifySpec == NotifyInit /\ [][NotifyNext]_vars

\* the parser and the classifier, run by the render on the text a manual
\* check brought, for every text of ParserTexts and MarkerTexts; no gateway
ParserInit ==
    /\ Init
    /\ clock = LastSunday
    /\ ~isSupabaseAvailable
    /\ permission = "default"

ParserNext ==
    \/ LoadEffect
    \/ MountSchedulingEffect
    \/ AddOneName
    \/ handleCheck
    \/ CheckLookupText
    \/ CheckLookupFail
    \/ CheckSaveSettled

ParserSpec == ParserInit /\ [][ParserNext]_vars

\* const sections = result ? parseResultSections(result.text) : [];
sections == IF result = NoResult THEN <<>> ELSE parseResultSections(result)

TypeOK ==
    /\ isSupabaseAvailable \in BOOLEAN
    /\ phase \in { "render", "loadEffect", "mounted", "unmounted" }
    /\ notifEnabled \in BOOLEAN
    /\ lastChecked \in 0..Horizon
    /\ cacheLast \in 0..Horizon
    /\ clock \in 0..Horizon
    /\ Len(gwList) <= MaxRows
    /\ BagCardinality(inflight) <= MaxInflight
    /\ permission \in { "unsupported", "default", "denied", "granted" }
    /\ notifPermission \in { "unsupported", "default", "denied", "granted" }
    /\ \A i \in 1..Len(notifications) : notifications[i].shown \in BOOLEAN

(* ====================================================================== *)
(*                              properties                                *)
(* ====================================================================== *)

\* the values the cache holds, decoded as the initialisers decode them
CachedList == ParseStoredList(cacheList)
CachedNotif == ParseStoredBool(cacheNotif)

\* C1: after any mutation (add, remove, toggle, record a check) has returned
\* control, the cache entry of each stored value equals the in-memory value,
\* whatever the gateway call does afterwards and also without a gateway.
C1_WriteThrough ==
    /\ CachedList = seriesList
    /\ cacheLast = lastChecked
    /\ CachedNotif = notifEnabled

\* a session in which an add was applied locally while its gateway call
\* failed, the flag was toggled on and a check was recorded
C1_Witness ==
    /\ isSupabaseAvailable
    /\ lastEvent.op = "add"
    /\ Includes(seriesList, lastEvent.name)
    /\ inflight = EmptyBag
    /\ gwList = <<>>
    /\ notifEnabled
    /\ lastChecked /= NoTimestamp

\* the order of the names two lists share is the same in both
KeepsOrder(old, new) ==
    \A i, j \in 1..Len(old) :
        (i < j /\ Includes(new, old[i]) /\ Includes(new, old[j]) /\ old[i] /= old[j])
            => \E p, q \in 1..Len(new) : p < q /\ new[p] = old[i] /\ new[q] = old[j]

\* the step in which a load() finishes, in any of its three ways, that
\* started after add(name) and the gateway call of the add had settled;
\* nothing else touched the list in between
LoadAfterAddFinishes(name) ==
    /\ name /= <<>>
    /\ \/ /\ lastEvent = Event("loadStart", name)
          /\ lastEvent'.op \in { "loadOk", "loadErr" }
       \/ /\ lastEvent = Event("add", name)
          /\ lastEvent' = Event("loadOffline", name)

\* C2: when add(name) of a new non-empty name is followed by a later load(),
\* the list after the load contains the name exactly once and keeps the
\* order of the other names, whatever the gateway did with the add and
\* however the load ended.
C2_AddThenLoad ==
    [][ \A name \in Names :
          LoadAfterAddFinishes(name)
            => /\ Count(seriesList', name) = 1
               /\ KeepsOrder(seriesList, seriesList') ]_vars

\* the step in which load() applies two successful fetches
LoadSucceeds ==
    /\ pcLoad.st = "fetching"
    /\ pcLoad'.st = "done"
    /\ lastEvent'.op = "loadOk"

\* C3 as stated: after a successful load() the state and the cache equal the
\* fetched values for the list, the flag and the timestamp, also when the
\* gateway has no settings row (fetched flag and timestamp: none) or a null
\* timestamp.
C3_LoadOverwritesAll ==
    [][ LoadSucceeds
            => /\ seriesList' = pcLoad.list
               /\ CachedList' = pcLoad.list
               /\ notifEnabled' = pcLoad.row.notif_enabled
               /\ CachedNotif' = pcLoad.row.notif_enabled
               /\ lastChecked' = pcLoad.row.last_checked_at
               /\ cacheLast' = pcLoad.row.last_checked_at ]_vars

\* C3 amended: after a successful load() the list (state and cache) equals
\* the fetched list; the flag equals the fetched flag when a settings row
\* exists and is left as it was otherwise; the timestamp equals the fetched
\* one when the row exists and its timestamp is not null, and is left as it
\* was otherwise.
C3_LoadOverwritesFetched ==
    [][ LoadSucceeds
            => /\ seriesList' = pcLoad.list
               /\ CachedList' = pcLoad.list
               /\ IF pcLoad.row.present
                  THEN /\ notifEnabled' = pcLoad.row.notif_enabled
                       /\ CachedNotif' = pcLoad.row.notif_enabled
                  ELSE /\ notifEnabled' = notifEnabled
                       /\ cacheNotif' = cacheNotif
               /\ IF pcLoad.row.present /\ pcLoad.row.last_checked_at /= NoTimestamp
                  THEN /\ lastChecked' = pcLoad.row.last_checked_at
                       /\ cacheLast' = pcLoad.row.last_checked_at
                  ELSE /\ lastChecked' = lastChecked
                       /\ cacheLast' = cacheLast ]_vars

\* load() succeeded against a gateway without a timestamp, and the session
\* kept the timestamp it had, next to the fetched list
C3_Witness ==
    /\ lastEvent.op = "loadOk"
    /\ pcLoad.st = "done"
    /\ gwSettings.last_checked_at = NoTimestamp
    /\ lastChecked /= NoTimestamp
    /\ cacheLast = lastChecked
    /\ result = NoResult
    /\ pcCheck.st = "idle"
    /\ pcAuto.st = "idle"
    /\ seriesList = gwList
    /\ seriesList /= <<>>

\* the step in which load() handles a rejected fetch
LoadFails ==
    /\ pcLoad = RejectedLoad
    /\ pcLoad'.st = "done"

\* C4: when a fetch of load() fails, the sync-error flag is set, the loading
\* indicator is cleared, and the list, the settings and the three cache keys
\* are what they were: nothing of the other fetch is applied.
C4_LoadFailureKeepsLocal ==
    [][ LoadFails
            => /\ syncError'
               /\ ~dbLoading'
               /\ UNCHANGED << seriesList, lastChecked, notifEnabled,
                               cacheList, cacheLast, cacheNotif >> ]_vars

\* load() failed in a session that holds a list
C4_Witness ==
    /\ lastEvent.op = "loadErr"
    /\ syncError
    /\ ~dbLoading
    /\ seriesList /= <<>>
    /\ CachedList = seriesList

\* what the "not configured" banner shows
OfflineModeShown == ~dbLoading /\ ~isSupabaseAvailable

\* C5: without a gateway, load() issues no gateway call, leaves the list,
\* the settings and the cache as they are, raises no error, and the offline
\* mode is observable afterwards.
C5_OfflineLoad ==
    [][ (~isSupabaseAvailable /\ phase = "render" /\ phase' = "loadEffect")
            => /\ UNCHANGED << seriesList, lastChecked, notifEnabled,
                               cacheList, cacheLast, cacheNotif,
                               inflight, gwList, gwSettings >>
               /\ pcLoad'.st = "done"
               /\ pcLoad'.series = "none"
               /\ pcLoad'.settings = "none"
               /\ ~syncError'
               /\ error' = NoError
               /\ OfflineModeShown' ]_vars

\* an offline session that came up with the cached list
C5_Witness ==
    /\ ~isSupabaseAvailable
    /\ lastEvent.op = "loadOffline"
    /\ phase = "mounted"
    /\ OfflineModeShown
    /\ seriesList /= <<>>
    /\ seriesList = CachedList

\* a gateway write that was in flight settles, applied or rejected
WriteSettles == BagCardinality(inflight') < BagCardinality(inflight)

\* an add or remove runs without a gateway
OfflineStoreOp ==
    /\ ~isSupabaseAvailable
    /\ lastEvent' /= lastEvent
    /\ lastEvent'.op \in { "add", "remove" }

\* C6: when the gateway call of an add or remove fails, or there is no
\* gateway, no error is surfaced and the list in memory and in the cache
\* keeps the locally applied change.
C6_GatewayFailureSwallowed ==
    [][ /\ WriteSettles
            => UNCHANGED << seriesList, cacheList, error, syncError >>
        /\ OfflineStoreOp
            => /\ UNCHANGED << error, syncError, inflight >>
               /\ CachedList' = seriesList'
               /\ lastEvent'.op = "add" => Includes(seriesList', lastEvent'.name)
               /\ lastEvent'.op = "remove" => ~Includes(seriesList', lastEvent'.name) ]_vars

\* an add whose gateway call failed: the name is in the list and in the
\* cache, not at the gateway, and no error is shown
C6_Witness ==
    /\ isSupabaseAvailable
    /\ lastEvent.op = "add"
    /\ inflight = EmptyBag
    /\ ~Includes(gwList, lastEvent.name)
    /\ Includes(seriesList, lastEvent.name)
    /\ Includes(CachedList, lastEvent.name)
    /\ error = NoError
    /\ pcLoad.st = "done"
    /\ ~syncError

\* C7: the tracked list never holds an empty name nor a name twice.
C7_NamesNonEmptyUnique ==
    /\ \A i \in 1..Len(seriesList) : seriesList[i] /= <<>>
    /\ \A i, j \in 1..Len(seriesList) : i /= j => seriesList[i] /= seriesList[j]

\* a submitted text that is empty or made of blanks only
Blank(text) == \A i \in 1..Len(text) : text[i] = SP

\* the step in which handleAdd runs on a text whose name is name
AddRuns(name) ==
    /\ lastEvent'.op \in { "add", "addRejected" }
    /\ lastEvent'.name = name
    /\ lastEvent' /= lastEvent \/ seriesList' /= seriesList

\* C8: add of an empty or blank text, or of a name already in the list,
\* changes neither the list nor the cache and issues no gateway call.
C8_RejectedAddIsNoOp ==
    [][ \A name \in Names \cup { <<>>, <<SP>> } :
          (AddRuns(name) /\ (Blank(name) \/ Includes(seriesList, name)))
            => UNCHANGED << seriesList, cacheList, inflight, gwList, gwSettings >> ]_vars

\* a duplicate add was rejected in a session that holds that name once,
\* list and cache agreeing
C8_Witness ==
    /\ lastEvent.op = "addRejected"
    /\ lastEvent.name /= <<>>
    /\ Count(seriesList, lastEvent.name) = 1
    /\ CachedList = seriesList
    /\ inflight = EmptyBag

\* the step in which handleRemove runs on name
RemoveRuns(name) ==
    /\ lastEvent'.op \in { "remove", "removeAbsent" }
    /\ lastEvent'.name = name
    /\ lastEvent' /= lastEvent \/ seriesList' /= seriesList

\* C9: remove of a name that is not in the list leaves the list in memory
\* and the cached list as they are and surfaces no error; nor does the
\* settling of its gateway call.
C9_RemoveAbsentIsNoOp ==
    [][ /\ \A name \in Names :
              (RemoveRuns(name) /\ ~Includes(seriesList, name))
                => /\ seriesList' = seriesList
                   /\ CachedList' = CachedList
                   /\ UNCHANGED << error, syncError >>
        /\ (lastEvent.op = "removeAbsent" /\ WriteSettles)
                => /\ seriesList' = seriesList
                   /\ CachedList' = CachedList
                   /\ UNCHANGED << error, syncError >> ]_vars

\* a name that is not tracked was removed from a list that holds another
\* name, and the gateway call has settled
C9_Witness ==
    /\ lastEvent.op = "removeAbsent"
    /\ seriesList /= <<>>
    /\ ~Includes(seriesList, lastEvent.name)
    /\ CachedList = seriesList
    /\ inflight = EmptyBag
    /\ isSupabaseAvailable
    /\ error = NoError

\* C10: within a session the last-check timestamp, once set, never
\* decreases, whatever the interleaving of manual checks, scheduled checks
\* and the completion of load().
C10_LastCheckedMonotone ==
    [][ lastChecked /= NoTimestamp => lastChecked' >= lastChecked ]_vars

(* ------------------------- weekly scheduler --------------------------- *)

\* the scheduler may be armed: the flag is on and the permission granted
MayBeArmed == notifEnabled /\ notifPermission = "granted"

\* the step in which the platform runs a timer callback
TimerCallbackRuns == TimerFire \/ IntervalFire

\* C11: once the flag is off or the permission is not 'granted', no timer
\* is pending, so that a timer armed before can never fire again; and a
\* timer callback runs only while the flag is on and the permission
\* granted, for a timer whose handle the component still holds.
C11_NoStaleTimer ==
    [][ /\ timers' /= {} => MayBeArmed'
        /\ TimerCallbackRuns
            => /\ MayBeArmed
               /\ \A t \in timers : t.id \in { weeklyTimerRef, weeklyIntervalRef } ]_vars

\* the user switched the weekly check off after the one-shot timer had
\* fired and armed the interval, a week or more before the last instant:
\* nothing is pending
C11_Witness ==
    /\ phase = "mounted"
    /\ ~notifEnabled
    /\ notifPermission = "granted"
    /\ weeklyTimerRef /= NoHandle
    /\ weeklyIntervalRef /= NoHandle
    /\ timers = {}
    /\ clock + Week <= Horizon

\* a step of the scheduled path: a timer callback starting runAutoCheck, or
\* runAutoCheck going on after an await (recording the check time, then
\* sending the notifications of the result, or the one of the failure)
ScheduledPathStep ==
    \/ TimerCallbackRuns
    \/ AutoLookupOk
    \/ AutoLookupFail
    \/ AutoSaveSettled

\* C12: while the flag is off, after the user switched it off, no event of
\* the scheduled path occurs: no scheduled lookup starts, no check time is
\* recorded and no notification sent by a scheduled check, also not by one
\* whose lookup was in flight when the flag went off.
C12_NoScheduledEventAfterDisable ==
    [][ ~notifEnabled => ~ScheduledPathStep ]_vars

\* runAutoCheck(list) was invoked once in this step: a lookup for list is
\* under way, or the list is empty and nothing is
InvokedOnce(list) ==
    /\ pcAuto.st = "idle"
    /\ pcAuto' = IF list = <<>> THEN pcAuto
                 ELSE [IdleAuto EXCEPT !.st = "lookup", !.list = list]

\* C13: when the one-shot timer fires, the check is invoked once and an
\* interval of exactly 7*24 hours is armed, the only pending timer; when the
\* interval fires, at the instant it was due, the check is invoked once and
\* the interval is due again exactly 7*24 hours later; an interval becomes
\* pending only in the step in which the one-shot timer fires; and time
\* never passes the instant at which a pending timer is due.
C13_OneShotThenWeekly ==
    [][ /\ TimerFire
            => \E t \in timers :
                 /\ t.kind = "timeout"
                 /\ clock' = t.due
                 /\ InvokedOnce(t.list)
                 /\ \E i \in timers' :
                      /\ timers' = {i}
                      /\ i.kind = "interval"
                      /\ i.list = t.list
                      /\ i.due = clock' + 7 * 24
        /\ IntervalFire
            => \E t \in timers :
                 /\ timers = {t}
                 /\ t.kind = "interval"
                 /\ clock' = t.due
                 /\ InvokedOnce(t.list)
                 /\ \E i \in timers' :
                      /\ timers' = {i}
                      /\ i.kind = "interval"
                      /\ i.list = t.list
                      /\ i.due = clock' + 7 * 24
        /\ (intervalPending' /\ ~intervalPending) => (timerPending /\ TimerFire)
        /\ \A t \in timers' : t.due >= clock' ]_vars

\* the first timer armed in the session fired a week ago and its check was
\* recorded then; now the interval has fired, its check is under way and
\* the interval is due again in a week
C13_Witness ==
    /\ clock = Horizon
    /\ weeklyTimerRef = 1
    /\ result /= NoResult
    /\ lastChecked = Horizon - 7 * 24
    /\ pcAuto.st = "lookup"
    /\ \E i \in timers :
         /\ timers = {i}
         /\ i.kind = "interval"
         /\ i.id = weeklyIntervalRef
         /\ i.due = Horizon + 7 * 24

\* the one-shot timer t is armed in this step
ArmedNow(t) ==
    /\ t \in timers'
    /\ t \notin timers
    /\ t.kind = "timeout"

\* C14: whenever the one-shot timer is armed, at instant now, its trigger
\* instant is a Sunday at 10:00 and strictly later than now; when now is
\* itself a Sunday, before or after 10:00, the trigger is on the Sunday
\* seven days later.
C14_NextSundayTenAM ==
    [][ \A t \in timers' :
          ArmedNow(t)
            => /\ getDay(t.due) = 0
               /\ getHours(t.due) = 10
               /\ t.due > clock
               /\ getDay(clock) = 0 => (t.due \div 24) = (clock \div 24) + 7 ]_vars

\* the weekly check was switched on on a Sunday after 10:00: the timer is
\* due at 10:00 seven days later
C14_Witness ==
    /\ getDay(clock) = 0
    /\ getHours(clock) > 10
    /\ MayBeArmed
    /\ \E t \in timers :
         /\ t.kind = "timeout"
         /\ t.id = weeklyTimerRef
         /\ t.due = (clock - getHours(clock)) + 7 * 24 + 10

\* the state of the scheduler, read off the pending timers
SchedulerState ==
    IF timers = {} THEN "IDLE"
    ELSE IF \A t \in timers : t.kind = "timeout" THEN "ARMED_ONESHOT"
    ELSE IF \A t \in timers : t.kind = "interval" THEN "ARMED_RECURRING"
    ELSE "ARMED_BOTH"

\* the step in which a change of the flag or of the permission leaves the
\* scheduler without the right to be armed
Disarms == MayBeArmed /\ ~MayBeArmed' /\ phase = "mounted" /\ phase' = "mounted"

\* C15: at most one timer is pending, the one-shot or the interval, so the
\* scheduler is IDLE, ARMED_ONESHOT or ARMED_RECURRING; ARMED_RECURRING is
\* entered only from ARMED_ONESHOT, in the step in which the one-shot timer
\* fires; and a disarm leads from either armed state to IDLE.
C15_SchedulerStates ==
    [][ /\ Cardinality(timers') <= 1
        /\ SchedulerState' \in { "IDLE", "ARMED_ONESHOT", "ARMED_RECURRING" }
        /\ (SchedulerState' = "ARMED_RECURRING" /\ SchedulerState /= "ARMED_RECURRING")
            => (SchedulerState = "ARMED_ONESHOT" /\ TimerFire)
        /\ Disarms
            => /\ SchedulerState \in { "ARMED_ONESHOT", "ARMED_RECURRING" }
               /\ SchedulerState' = "IDLE" ]_vars

\* the weekly check was switched off while the one-shot timer was pending,
\* in a session that never armed the interval: the scheduler is idle
C15_Witness ==
    /\ phase = "mounted"
    /\ ~notifEnabled
    /\ notifPermission = "granted"
    /\ weeklyTimerRef /= NoHandle
    /\ weeklyIntervalRef = NoHandle
    /\ SchedulerState = "IDLE"

\* the step in which the scheduling effect runs: on mount, and after a
\* render in which the flag or the permission changed
EffectRuns ==
    \/ phase = "loadEffect" /\ phase' = "mounted"
    \/ /\ phase = "mounted"
       /\ phase' = "mounted"
       /\ notifEnabled' /= notifEnabled \/ notifPermission' /= notifPermission

\* C16: when the scheduling effect disarms, no timer is pending afterwards,
\* whether the one-shot or the interval was; and when it disarms an idle
\* scheduler, for the first time or again, the timers and the handles stay
\* as they are and no error is raised.
C16_DisarmCancelsBoth ==
    [][ (EffectRuns /\ ~MayBeArmed')
            => /\ timers' = {}
               /\ SchedulerState = "IDLE"
                    => UNCHANGED << timers, weeklyTimerRef, weeklyIntervalRef,
                                    error, syncError >> ]_vars

\* load() switched the flag on where the permission was never granted, and
\* the user switched it off again: the idle scheduler was disarmed twice
C16_Witness ==
    /\ phase = "mounted"
    /\ notifPermission = "default"
    /\ ~notifEnabled
    /\ pcToggle.st = "idle"
    /\ gwSettings = [present |-> TRUE, notif_enabled |-> FALSE, last_checked_at |-> 1]
    /\ SchedulerState = "IDLE"
    /\ error = NoError

\* the step in which load() stores a fetched flag that is on while the flag
\* is on already and the permission granted
EnabledAgain ==
    /\ LoadSucceeds
    /\ pcLoad.row.present
    /\ pcLoad.row.notif_enabled
    /\ MayBeArmed

\* C17: setting the flag to true when it is true already, the permission
\* being granted, leaves the scheduler as the first enable left it: the
\* pending timer and the handles are untouched, and exactly one timer is
\* pending whenever the flag is on and the permission granted.
C17_EnableTwice ==
    [][ /\ EnabledAgain
            => /\ UNCHANGED << timers, weeklyTimerRef, weeklyIntervalRef >>
               /\ MayBeArmed'
        /\ (MayBeArmed' /\ phase' = "mounted") => Cardinality(timers') = 1 ]_vars

\* the timer was armed before load() finished, over the empty list; load()
\* then stored the fetched list and the fetched flag, which is on: the timer
\* is the one that was pending before
C17_Witness ==
    /\ lastEvent.op = "loadOk"
    /\ MayBeArmed
    /\ lastChecked = 1
    /\ seriesList = << NameA >>
    /\ \E t \in timers :
         /\ timers = {t}
         /\ t.kind = "timeout"
         /\ t.list = <<>>

(* ----------------------- notification toggle -------------------------- *)

\* C18: while the permission is 'denied' or 'unsupported' the switch is
\* disabled: a click of the user runs nothing, so it issues no permission
\* request and changes the flag nowhere (state, cache, gateway), whether the
\* flag is on or off; no request is pending and no timer is.
C18_ToggleInertWhenBlocked ==
    notifPermission \in { "denied", "unsupported" }
        => /\ ~ENABLED ToggleClick
           /\ pcToggle.st = "idle"
           /\ SchedulerState = "IDLE"

\* the flag is on, as the gateway has it, in a browser that blocks
\* notifications
C18_Witness ==
    /\ phase = "mounted"
    /\ notifPermission = "denied"
    /\ notifEnabled
    /\ pcLoad.st = "done"
    /\ gwSettings.notif_enabled
    /\ SchedulerState = "IDLE"

\* C19: with the flag off and the permission 'default', a click of the
\* user issues one permission request and changes nothing else; when the
\* answer is 'granted' the flag is on (state and cache) and the one-shot
\* timer armed; when it is not, the flag, the cache, the gateway and the
\* writes in flight are as before and no timer is pending.
C19_ToggleFromDefault ==
    [][ /\ (ToggleClick /\ ~notifEnabled /\ notifPermission = "default")
            => /\ pcToggle.st = "idle"
               /\ pcToggle'.st = "requesting"
               /\ UNCHANGED << notifEnabled, notifPermission, cacheNotif,
                               inflight, gwSettings, timers >>
        /\ (PermissionAnswered /\ notifPermission' = "granted")
            => /\ notifEnabled'
               /\ CachedNotif'
               /\ SchedulerState' = "ARMED_ONESHOT"
        /\ (PermissionAnswered /\ notifPermission' /= "granted")
            => /\ UNCHANGED << notifEnabled, cacheNotif, inflight, gwSettings >>
               /\ SchedulerState' = "IDLE" ]_vars

\* the user clicked the switch with the flag off and the permission
\* 'default': the request is pending and nothing else has changed
C19_Witness ==
    /\ pcToggle.st = "requesting"
    /\ ~notifEnabled
    /\ notifPermission = "default"
    /\ cacheNotif = StringOfBool(FALSE)
    /\ inflight = EmptyBag
    /\ SchedulerState = "IDLE"

\* C20: with the permission 'granted', a click of the user flips the flag
\* without a permission request: when the flag goes on the one-shot timer
\* is armed, when it goes off no timer is pending.
C20_ToggleWhenGranted ==
    [][ (ToggleClick /\ notifPermission = "granted")
            => /\ notifEnabled' = ~notifEnabled
               /\ pcToggle.st = "idle"
               /\ pcToggle'.st = "idle"
               /\ notifPermission' = "granted"
               /\ notifEnabled' => SchedulerState' = "ARMED_ONESHOT"
               /\ ~notifEnabled' => SchedulerState' = "IDLE" ]_vars

\* the user switched the weekly check off after a timer had been armed; the
\* write of the flag is on its way to the gateway
C20_Witness ==
    /\ notifPermission = "granted"
    /\ ~notifEnabled
    /\ weeklyTimerRef /= NoHandle
    /\ BagToSet(inflight) = { Req("saveNotif", <<>>, FALSE) }
    /\ SchedulerState = "IDLE"

\* a permission request of the user is waiting for its answer
RequestPending == pcToggle.st = "requesting"

\* C21: within a session the tracked permission changes only from 'default'
\* to 'granted' or to 'denied', and only in the step in which a permission
\* request started by the user's click is answered; while it is
\* 'unsupported' or 'denied' it does not change, no request is pending and
\* none is started.
C21_PermissionTransitions ==
    [][ /\ notifPermission' /= notifPermission
            => /\ notifPermission = "default"
               /\ notifPermission' \in { "granted", "denied" }
               /\ RequestPending /\ ~RequestPending'
               /\ PermissionAnswered
        /\ (~RequestPending /\ RequestPending')
            => ToggleClick /\ notifPermission = "default"
        /\ notifPermission \in { "unsupported", "denied" }
            => /\ notifPermission' = notifPermission
               /\ ~RequestPending /\ ~RequestPending' ]_vars

\* the user's request is pending with the tracked permission 'default', and
\* the browser is going to answer 'denied'
C21_Witness ==
    /\ RequestPending
    /\ notifPermission = "default"
    /\ permission = "denied"
    /\ phase = "mounted"

\* the scheduled check finishes, with or without a report
AutoCheckEnds == pcAuto.st /= "idle" /\ pcAuto'.st = "idle"

\* C22: a notification is shown only if the platform's permission is
\* 'granted' at the moment of the notify call: the notifications a scheduled
\* check attempts are all shown when it is, and none is when it is anything
\* else, whatever permission the component tracks; either way the check runs
\* to its end.
C22_ShownOnlyWhenGranted ==
    [][ AutoCheckEnds
            => /\ Len(notifications') >= 1
               /\ \A i \in 1..Len(notifications') :
                     notifications'[i].shown <=> (permission = "granted")
               /\ pcAuto' = IdleAuto ]_vars

\* a scheduled check attempted its notification after the user had revoked
\* the site permission: the component still tracks 'granted', nothing was shown
C22_Witness ==
    /\ Len(notifications) >= 1
    /\ ~notifications[1].shown
    /\ notifPermission = "granted"
    /\ permission = "denied"
    /\ pcAuto = IdleAuto

\* a timer callback runs
ScheduledAttempt == TimerFire \/ IntervalFire

\* the scheduled check starts its lookup
AutoLookupStarts == pcAuto.st = "idle" /\ pcAuto'.st = "lookup"

\* the manual check starts its lookup
CheckLookupStarts == pcCheck.st = "idle" /\ pcCheck'.st = "lookup"

\* C23: every check, manual or scheduled, looks up the whole tracked list as
\* it is when the check starts: a manual check that starts its lookup passes
\* seriesList, and a timer callback starts a lookup of seriesList whenever
\* seriesList is not empty.
C23_ChecksUseCurrentList ==
    [][ /\ CheckLookupStarts => pcCheck'.list = seriesList
        /\ (ScheduledAttempt /\ seriesList /= <<>>)
            => AutoLookupStarts /\ pcAuto'.list = seriesList ]_vars

\* the check on an empty list that a timer callback asked for
EmptyScheduledCheck ==
    /\ ScheduledAttempt
    /\ \E t \in timers : IsDue(t) /\ t.list = <<>>

\* C24: the lookup is never called with an empty list: a check that is
\* waiting for its lookup was given a list that is not empty, and a manual
\* or scheduled check on an empty list starts no lookup and changes nothing
\* of the component's state, the cache, the gateway or the notifications.
C24_NoLookupOfEmptyList ==
    [][ /\ pcCheck'.st = "lookup" => pcCheck'.list /= <<>>
        /\ pcAuto'.st = "lookup" => pcAuto'.list /= <<>>
        /\ (handleCheck /\ seriesList = <<>>) => UNCHANGED vars
        /\ EmptyScheduledCheck
            => UNCHANGED << memVars, uiVars, cacheVars, gwVars, inflight,
                            dbLoading, syncError, notifPermission, pcLoad,
                            pcCheck, pcAuto, pcToggle, notifications >> ]_vars

\* the one-shot timer, armed while the list was empty, has fired: the
\* weekly interval is running and no lookup was made
C24_Witness ==
    /\ clock = Horizon
    /\ \E t \in timers : t.kind = "interval" /\ t.list = <<>>
    /\ weeklyIntervalRef /= NoHandle
    /\ pcAuto = IdleAuto
    /\ notifications = <<>>
    /\ lastChecked < Horizon

\* a scheduled check whose lookup succeeded reaches its notifications
AutoCheckSucceeds == pcAuto.st = "saving" /\ pcAuto'.st = "idle"

\* the good-news sections of the report the scheduled check holds
GoodNewsOfCheck == GoodNews(parseResultSections(pcAuto.data))

\* the status line of a section: its first line that starts with 'Status:'
\* (<<>> when there is none)
StatusLinesOf(sec) ==
    SelectSeq(SplitLines(sec.body), LAMBDA l : StartsWith(l, StatusPrefix))

\* what a section's notification is to say: the status line without its
\* prefix and the blanks around the rest, or the badge of the classification
ExpectedStatus(sec) ==
    IF StatusLinesOf(sec) = <<>> THEN getStatusMeta(sec.body).badge
    ELSE LET l == Head(StatusLinesOf(sec))
         IN  Trim(SubSeq(l, Len(StatusPrefix) + 1, Len(l)))

\* C25: a successful scheduled check whose report has k >= 1 good-news
\* sections attempts exactly 1 + k notifications: first the summary, which
\* names k, then one per good-news section, in the order of the sections,
\* titled with the section's title and carrying the section's status line
\* without the 'Status:' prefix, or the classification's badge when the
\* section has no status line.
C25_SummaryThenOnePerSection ==
    [][ (AutoCheckSucceeds /\ Len(GoodNewsOfCheck) >= 1)
            => LET k == Len(GoodNewsOfCheck) IN
               /\ Len(notifications') = 1 + k
               /\ notifications'[1].title = WeeklyUpdateTitle
               /\ Head(notifications'[1].body) = ToString(k)
               /\ \A i \in 1..k :
                     /\ notifications'[1 + i].title = GoodNewsOfCheck[i].title
                     /\ notifications'[1 + i].body = ExpectedStatus(GoodNewsOfCheck[i]) ]_vars

\* the report had two good-news sections, "b" with a status line and "a"
\* without: a summary and two notifications were attempted, in that order
C25_Witness ==
    /\ Len(notifications) = 3
    /\ notifications[1].title = WeeklyUpdateTitle
    /\ notifications[2].title = NameB
    /\ notifications[2].body = << Confirmed >>
    /\ notifications[3].title = NameA
    /\ notifications[3].body = getStatusMeta(<< InProduction >>).badge
    /\ pcAuto = IdleAuto

\* C26 (as claimed): a successful scheduled check whose report has no
\* good-news section attempts no notification.
C26_NoNewsNoNotification ==
    [][ (AutoCheckSucceeds /\ Len(GoodNewsOfCheck) = 0)
            => notifications' = <<>> ]_vars

\* C26 (amended): a successful scheduled check whose report has no good-news
\* section attempts exactly one notification, the weekly update saying that
\* there are no new episodes or seasons; it attempts no per-series one.
C26_NoNewsOneNotification ==
    [][ (AutoCheckSucceeds /\ Len(GoodNewsOfCheck) = 0)
            => /\ Len(notifications') = 1
               /\ notifications'[1].title = WeeklyUpdateTitle
               /\ notifications'[1].body = NoNewsBody ]_vars

\* the report of the scheduled check was the one of a series whose renewal
\* is pending: the only notification is the "no news" weekly update
C26_Witness ==
    /\ result = Section(NameA, Pending)
    /\ Len(notifications) = 1
    /\ notifications[1].body = NoNewsBody
    /\ notifications[1].shown
    /\ lastChecked = Horizon
    /\ pcAuto = IdleAuto

\* the lookup of the scheduled check fails
AutoCheckFails == pcAuto.st = "lookup" /\ pcAuto'.st = "idle"

\* C27: when the lookup of a scheduled check fails, exactly one
\* notification, the failure one, is attempted; the inline error is not set
\* and the last-check time (state, cache and gateway) and the displayed
\* result stay as they were.
C27_ScheduledFailure ==
    [][ AutoCheckFails
            => /\ Len(notifications') = 1
               /\ notifications'[1].title = FailureTitle
               /\ notifications'[1].body = FailureBody
               /\ UNCHANGED << error, lastChecked, cacheLast, gwSettings,
                               result >> ]_vars

\* the scheduled check of the Sunday has failed: the failure notification
\* was shown, there is no inline error and no check is recorded
C27_Witness ==
    /\ clock = Horizon
    /\ Len(notifications) = 1
    /\ notifications[1].body = FailureBody
    /\ notifications[1].shown
    /\ error = NoError
    /\ lastChecked < Horizon
    /\ cacheLast < Horizon
    /\ gwSettings.last_checked_at < Horizon
    /\ pcAuto = IdleAuto

\* the lookup of the manual check fails
ManualCheckFails == pcCheck.st = "lookup" /\ pcCheck'.st = "idle"

\* the save of the check time that ends a manual check settles
ManualSaveSettles == pcCheck.st = "saving" /\ pcCheck'.st = "idle"

\* C28: when the lookup of a manual check fails, the inline error is set,
\* no notification is attempted, the last-check time stays as it was and
\* loading returns to false; when the lookup succeeded, the save of the
\* check time, whether the gateway takes it or not, ends the check with the
\* result shown, the check time (or a later one) recorded locally, no error
\* and no notification.
C28_ManualFailure ==
    [][ /\ ManualCheckFails
            => /\ error' = CheckFailedMessage
               /\ ~loading'
               /\ UNCHANGED << notifications, lastChecked, cacheLast,
                               gwSettings, result >>
        /\ ManualSaveSettles
            => /\ error' = NoError
               /\ result' /= NoResult
               /\ ~loading'
               /\ lastChecked' >= pcCheck.now /\ cacheLast' >= pcCheck.now
               /\ UNCHANGED << notifications, result, lastChecked,
                               cacheLast >> ]_vars

\* a manual check made before the Sunday has failed: the error is shown,
\* the spinner is gone, nothing was recorded or notified
C28_Witness ==
    /\ error = CheckFailedMessage
    /\ ~loading
    /\ pcCheck = IdleCheck
    /\ result = NoResult
    /\ clock = LastSunday
    /\ lastChecked < LastSunday
    /\ cacheLast < LastSunday
    /\ notifications = <<>>

\* the provider's empty answer reaches the manual check
ManualEmptyAnswer ==
    /\ pcCheck.st = "lookup" /\ pcCheck'.st /= "lookup"
    /\ result' = checkNewEpisodes(<<>>)

\* the provider's empty answer reaches the scheduled check
AutoEmptyAnswer ==
    /\ pcAuto.st = "lookup" /\ pcAuto'.st /= "lookup"
    /\ result' = checkNewEpisodes(<<>>)

\* C29: an empty response of the status provider is a lookup failure: the
\* manual check that gets it sets the inline error, the scheduled check
\* that gets it attempts the one failure notification, and neither records
\* a last-check time or shows a result.
C29_EmptyResponseIsFailure ==
    [][ /\ ManualEmptyAnswer
            => /\ error' = CheckFailedMessage
               /\ UNCHANGED << lastChecked, cacheLast, result >>
        /\ AutoEmptyAnswer
            => /\ Len(notifications') = 1
               /\ notifications'[1].body = FailureBody
               /\ UNCHANGED << lastChecked, cacheLast, result >> ]_vars

\* the lines of the text on display
ResultLines == SplitLines(result)

\* the line is a section header
IsHeaderLine(line) == titleMatch(line) /= NoMatch

\* the places of the header lines, and the n-th of them
HeaderPlaces == { i \in 1..Len(ResultLines) : IsHeaderLine(ResultLines[i]) }
NthHeader(n) ==
    CHOOSE i \in HeaderPlaces : Cardinality({ j \in HeaderPlaces : j <= i }) = n

\* the lines after the n-th header, up to the next header or the end
LinesOfSection(n) ==
    LET from == NthHeader(n) + 1
        to == IF n < Cardinality(HeaderPlaces) THEN NthHeader(n + 1) - 1
              ELSE Len(ResultLines)
    IN  SubSeq(ResultLines, from, to)

\* the text is made of header lines, each followed by lines that are not
HeadersAndBodies == result /= NoResult /\ IsHeaderLine(ResultLines[1])

\* C30 (as claimed): for a text of N header lines, each followed by zero or
\* more other lines, the parser yields N sections, in order, and the body of
\* each is exactly the lines between its header and the next, blank lines
\* at the start, at the end and inside included.
C30_BodiesVerbatim ==
    HeadersAndBodies
        => /\ Len(sections) = Cardinality(HeaderPlaces)
           /\ \A n \in 1..Len(sections) :
                 /\ << sections[n].title >> = titleMatch(ResultLines[NthHeader(n)])
                 /\ sections[n].body = JoinLines(LinesOfSection(n))

\* C30 (amended): for a text of N header lines, each followed by zero or
\* more other lines, the parser yields N sections, in order, and the body of
\* each is the lines between its header and the next joined by line feeds,
\* blank lines inside included, without the white space (blank lines
\* included) at its start and at its end.
C30_BodiesTrimmed ==
    HeadersAndBodies
        => /\ Len(sections) = Cardinality(HeaderPlaces)
           /\ \A n \in 1..Len(sections) :
                 /\ << sections[n].title >> = titleMatch(ResultLines[NthHeader(n)])
                 /\ sections[n].body = Trim(JoinLines(LinesOfSection(n)))

\* a header followed by a blank line, a line of text and a blank line was
\* parsed: one section, whose body is the line of text alone
C30_Witness ==
    /\ result = JoinLines(<< Header(NameA), <<>>, << "x" >>, <<>> >>)
    /\ Len(ResultLines) = 4
    /\ Len(sections) = 1
    /\ sections[1].title = NameA
    /\ sections[1].body = << "x" >>

\* the line, without the blanks around it, is wrapped in a pair of '**'
\* with something in between and nothing else
WrappedLine(line) ==
    LET s == Trim(line) IN
    /\ Len(s) >= 5
    /\ s[1] = STAR /\ s[2] = STAR
    /\ s[Len(s) - 1] = STAR /\ s[Len(s)] = STAR

\* what the pair wraps
Unwrapped(line) == LET s == Trim(line) IN SubSeq(s, 3, Len(s) - 2)

\* the places of the wrapped lines of the text on display, and the n-th
WrappedPlaces == { i \in 1..Len(ResultLines) : WrappedLine(ResultLines[i]) }
NthWrapped(n) ==
    CHOOSE i \in WrappedPlaces : Cardinality({ j \in WrappedPlaces : j <= i }) = n

\* the lines between the n-th wrapped line and the next one, or the end
LinesAfterWrapped(n) ==
    SubSeq(ResultLines, NthWrapped(n) + 1,
           IF n < Cardinality(WrappedPlaces) THEN NthWrapped(n + 1) - 1
           ELSE Len(ResultLines))

\* C31: for every text, there are as many sections as lines that match the
\* header pattern; each such line, wherever it stands, starts a section
\* titled with what it wraps, and the section holds the lines up to the
\* next such line only, so that the lines before the first header are in no
\* section; the empty text has no section.
C31_OneSectionPerHeader ==
    /\ parseResultSections(<<>>) = <<>>
    /\ result /= NoResult
        => /\ Len(sections) = Cardinality(WrappedPlaces)
           /\ \A n \in 1..Len(sections) :
                 /\ sections[n].title = Unwrapped(ResultLines[NthWrapped(n)])
                 /\ sections[n].body = Trim(JoinLines(LinesAfterWrapped(n)))

\* a text of a line, a header, a line and a header between blanks was
\* parsed: two sections, the first line in neither
C31_Witness ==
    /\ result = JoinLines(<< << "x" >>, Header(NameA), << SP, "x", SP >>,
                             << SP >> \o Header(NameB) \o << SP >> >>)
    /\ Len(sections) = 2
    /\ sections[1] = [title |-> NameA, body |-> << "x" >>]
    /\ sections[2] = [title |-> NameB, body |-> <<>>]

\* the priority of a marker: available-now, season-confirmed, in-production,
\* renewal-pending, ended
Rank(marker) ==
    CASE marker = Available -> 1
      [] marker = Confirmed -> 2
      [] marker = InProduction -> 3
      [] marker = Pending -> 4
      [] marker = Ended -> 5

\* the markers a body holds, and the one of them that comes first
Present(body) == { m \in Markers : \E i \in 1..Len(body) : body[i] = m }
Top(body) == CHOOSE m \in Present(body) : \A o \in Present(body) : Rank(m) <= Rank(o)

\* the classification getStatusMeta gives: the marker its badge starts with
\* ("U+2753", the question mark, for 'unknown')
Classification(body) == Head(getStatusMeta(body).badge)

\* C32: every body gets one classification: that of the marker present that
\* comes first in the order available-now, season-confirmed, in-production,
\* renewal-pending, ended, wherever the markers stand in the body, and
\* 'unknown' exactly when no marker is present; a body with the
\* available-now and the ended marker is available-now; a section is good
\* news exactly when its classification is one of the first three.
C32_ClassifyByPriority ==
    \A n \in 1..Len(sections) :
        LET body == sections[n].body IN
        /\ Classification(body) \in Markers \cup { "U+2753" }
        /\ Classification(body) = "U+2753" <=> Present(body) = {}
        /\ Present(body) /= {} => Classification(body) = Top(body)
        /\ { Available, Ended } \subseteq Present(body)
              => Classification(body) = Available
        /\ getStatusMeta(body).isGoodNews
              <=> Classification(body) \in { Available, Confirmed, InProduction }

\* a section whose body holds the ended marker and then the available-now
\* one is on display: it is classified available-now, and is good news
C32_Witness ==
    /\ result = JoinLines(<< Header(NameA), << Ended, Available >> >>)
    /\ Len(sections) = 1
    /\ Classification(sections[1].body) = Available
    /\ getStatusMeta(sections[1].body).isGoodNews

(* ------------------- a Local Cache write that throws ------------------- *)

\* the try block of load() whose localStorage.setItem throws after
\* setSeriesList(cloud): catch sets syncError, finally ends the spinner
LoadStorageFails ==
    /\ phase = "mounted"
    /\ pcLoad.st = "fetching"
    /\ pcLoad.series = "ok"
    /\ pcLoad.settings = "ok"
    /\ seriesList' = pcLoad.list
    /\ syncError' = TRUE
    /\ dbLoading' = FALSE
    /\ pcLoad' = DoneLoad
    /\ lastEvent' = Event("loadStorageFails", <<>>)
    /\ UNCHANGED << isSupabaseAvailable, beforeClear, permission, notifications,
                    phase, lastChecked, notifEnabled, notifPermission,
                    uiVars, cacheVars, gwVars, inflight, pcCheck, pcAuto,
                    pcToggle, schedVars, clock >>

\* handleAdd whose localStorage.setItem throws after setSeriesList(next): the
\* handler's promise rejects, and addSeries is never called
AddStorageFails ==
    \E inputValue \in Inputs :
        LET trimmed == Trim(inputValue) IN
        /\ phase = "mounted"
        /\ ~AddRejected(seriesList, trimmed)
        /\ seriesList' = AddNext(seriesList, trimmed)
        /\ lastEvent' = Event("addStorageFails", trimmed)
        /\ UNCHANGED << isSupabaseAvailable, beforeClear, permission, notifications,
                        phase, lastChecked, notifEnabled,
                        notifPermission, dbLoading, syncError, uiVars,
                        cacheVars, gwVars, inflight, pcLoad, pcCheck, pcAuto,
                        pcToggle, schedVars, clock >>

\* handleCheck whose localStorage.setItem throws after setResult(data) and
\* setLastChecked(now): the outer catch sets the lookup error, finally ends
\* the spinner
CheckStorageFails ==
    /\ pcCheck.st = "lookup"
    /\ \E response \in LookupTexts : result' = checkNewEpisodes(response)
    /\ lastChecked' = clock
    /\ error' = CheckFailedMessage
    /\ loading' = FALSE
    /\ pcCheck' = IdleCheck
    /\ lastEvent' = Event("checkStorageFails", <<>>)
    /\ UNCHANGED << isSupabaseAvailable, beforeClear, permission, notifications,
                    phase, seriesList, notifEnabled,
                    notifPermission, dbLoading, syncError,
                    cacheVars, gwVars, inflight, pcLoad, pcAuto,
                    pcToggle, schedVars, clock >>

\* the list and the manual check in a browser whose storage may be full
StorageNext ==
    \/ LoadEffect
    \/ MountSchedulingEffect
    \/ GatewayListSeries
    \/ GatewayGetSettings
    \/ LoadSucceed
    \/ LoadFail
    \/ LoadStorageFails
    \/ Add
    \/ AddStorageFails
    \/ GatewayWriteOk
    \/ GatewayWriteFail
    \/ handleCheck
    \/ CheckLookupOk
    \/ CheckLookupFail
    \/ CheckStorageFails
    \/ CheckSaveSettled

StorageSpec == StoreInit /\ [][StorageNext]_vars

\* a step in which a write to the Local Cache threw
StorageWriteFails == LoadStorageFails \/ AddStorageFails \/ CheckStorageFails

\* C33: a step in which a Local Cache write fails is not reported as a
\* remote-sync failure (the sync failure flag is not raised by it) nor as a
\* lookup failure (the inline error does not become the lookup message)
C33_StorageFailureSurfaced ==
    [][StorageWriteFails =>
          /\ syncError' = syncError
          /\ error' /= CheckFailedMessage]_vars

(* ------------------- clearing the browser's storage -------------------- *)

\* the user clears the site's local storage and opens the page again: a new
\* session starts from an empty cache
ClearAndReload ==
    /\ phase = "mounted"
    /\ phase' = "render"
    /\ beforeClear' = [cleared |-> TRUE,
                       synced |-> ~dbLoading /\ ~syncError /\ inflight = EmptyBag,
                       list |-> seriesList, notif |-> notifEnabled,
                       last |-> lastChecked]
    /\ cacheList' = Absent
    /\ cacheLast' = NoTimestamp
    /\ cacheNotif' = Absent
    /\ seriesList' = ParseStoredList(cacheList')
    /\ lastChecked' = cacheLast'
    /\ notifEnabled' = ParseStoredBool(cacheNotif')
    /\ dbLoading' = TRUE
    /\ syncError' = FALSE
    /\ loading' = FALSE
    /\ result' = NoResult
    /\ error' = NoError
    /\ pcLoad' = IdleLoad
    /\ pcCheck' = IdleCheck
    /\ pcAuto' = IdleAuto
    /\ pcToggle' = IdleToggle
    /\ weeklyTimerRef' = NoHandle
    /\ weeklyIntervalRef' = NoHandle
    /\ timers' = {}
    /\ notifPermission' = permission
    /\ notifications' = <<>>
    /\ lastEvent' = Event("clear", <<>>)
    /\ UNCHANGED << isSupabaseAvailable, permission, gwVars, inflight, clock >>

\* the list in a browser whose storage the user clears between sessions
ClearNext ==
    \/ LoadEffect
    \/ MountSchedulingEffect
    \/ GatewayListSeries
    \/ GatewayGetSettings
    \/ LoadSucceed
    \/ LoadFail
    \/ ClearAndReload
    \/ Add
    \/ Remove
    \/ GatewayWriteOk
    \/ GatewayWriteFail

ClearSpec == StoreInit /\ [][ClearNext]_vars

\* a successful load() that completes the session opened by clearing local
\* storage, the clear having found the earlier session's load successful and
\* every gateway write settled, and no add or remove having run since
LoadAfterClear ==
    /\ LoadSucceed
    /\ lastEvent.op = "loadStart"
    /\ beforeClear.cleared
    /\ beforeClear.synced

\* C34: a successful load() after local storage was cleared restores the list
\* and the settings the user had before the clear
C34_ClearedDataRestored ==
    [][LoadAfterClear =>
          /\ seriesList' = beforeClear.list
          /\ notifEnabled' = beforeClear.notif
          /\ lastChecked' = beforeClear.last]_vars

(* ------------------------- switching the tab --------------------------- *)

\* the user leaves the tracker tab while no request of the component is
\* pending: App renders another tab, SeriesTracker unmounts, the cleanup of
\* the scheduling effect clears both handles and the component's state is
\* dropped (the variables keep its last values until the next mount)
CloseTrackerTab ==
    /\ phase = "mounted"
    /\ pcLoad.st /= "fetching"
    /\ pcCheck = IdleCheck
    /\ pcAuto = IdleAuto
    /\ pcToggle = IdleToggle
    /\ phase' = "unmounted"
    /\ Disarm
    /\ UNCHANGED << isSupabaseAvailable, beforeClear, permission, notifications,
                    memVars, notifPermission, dbLoading, syncError, uiVars,
                    cacheVars, gwVars, inflight, pcLoad, pcCheck, pcAuto,
                    pcToggle, clock, lastEvent >>

\* the user comes back to the tracker tab: App renders a new SeriesTracker,
\* whose state is initialised from the cache
OpenTrackerTab ==
    /\ phase = "unmounted"
    /\ phase' = "render"
    /\ seriesList' = ParseStoredList(cacheList)
    /\ lastChecked' = cacheLast
    /\ notifEnabled' = ParseStoredBool(cacheNotif)
    /\ dbLoading' = TRUE
    /\ syncError' = FALSE
    /\ loading' = FALSE
    /\ result' = NoResult
    /\ error' = NoError
    /\ pcLoad' = IdleLoad
    /\ weeklyTimerRef' = NoHandle
    /\ weeklyIntervalRef' = NoHandle
    /\ notifPermission' = permission
    /\ notifications' = <<>>
    /\ UNCHANGED << isSupabaseAvailable, beforeClear, permission, cacheVars,
                    gwVars, inflight, pcCheck, pcAuto, pcToggle, timers,
                    clock, lastEvent >>

\* the weekly scheduler of a page on which the user switches between the
\* tracker tab and the other tabs, in a browser whose site permission the
\* user may change
TabNext ==
    \/ LoadEffect
    \/ MountSchedulingEffect
    \/ GatewayListSeries
    \/ GatewayGetSettings
    \/ LoadSucceed
    \/ LoadFail
    \/ GatewayWriteOk
    \/ GatewayWriteFail
    \/ TimerFire
    \/ AutoLookupOk
    \/ AutoLookupFail
    \/ AutoSaveSettled
    \/ ToggleClick
    \/ PermissionAnswered
    \/ CloseTrackerTab
    \/ OpenTrackerTab
    \/ SitePermissionChanged

TabSpec == NotifyInit /\ [][TabNext]_vars

\* the page is open, on the tracker tab or on another one
PageOpen == phase \in { "mounted", "unmounted" }

\* the weekly check is switched on, in the state and in the cache, and the
\* permission granted, as tracked and on the platform
WeeklyCheckOn == MayBeArmed /\ CachedNotif /\ permission = "granted"

\* C35: while the page is open with the weekly check switched on and the
\* permission granted, a scheduler timer is pending, whichever tab the user
\* is viewing
C35_TimerAlwaysPending == (PageOpen /\ WeeklyCheckOn) => timers /= {}

\* the same while the tracker tab is the one the user is viewing
TimerPendingOnTrackerTab == (phase = "mounted" /\ WeeklyCheckOn) => timers /= {}

(* ------------------------- add during load() --------------------------- *)

\* the step in which load() applies two successful fetches, the last store
\* operation before it being an add that ran after this load() had started
LoadSucceedsAfterAdd ==
    /\ LoadSucceed
    /\ lastEvent.op = "add"

\* C36: a name the user added while the initial load() was in flight is in the
\* in-memory list and in the Local Cache after that load() completed
\* successfully
C36_AddDuringLoadKept ==
    [][LoadSucceedsAfterAdd =>
          /\ Includes(seriesList', lastEvent.name)
          /\ Includes(CachedList', lastEvent.name)]_vars

(* ----------------------- flag, permission, timers ---------------------- *)

\* C37: a timer of the scheduler is pending only if the flag is on and the
\* tracked permission is 'granted'
C37_TimerOnlyIfEnabledAndGranted == timers /= {} => MayBeArmed

\* the one-shot timer fired and armed the interval, which is pending with the
\* flag on and the permission granted
C37_Witness ==
    /\ phase = "mounted"
    /\ MayBeArmed
    /\ weeklyIntervalRef /= NoHandle
    /\ \E t \in timers : t.kind = "interval" /\ t.id = weeklyIntervalRef

\* the flag is on while the tracked permission is not 'granted'
FlagOnUngranted == notifEnabled /\ notifPermission /= "granted"

\* the step in which a new component instance initialises its state from the
\* Local Cache
InitialisedFromCache == phase /= "render" /\ phase' = "render"

\* C38 as stated: the flag is on only if the tracked permission is 'granted'
C38_EnabledOnlyIfGranted == notifEnabled => notifPermission = "granted"

\* C38 amended: the flag comes to be on without the permission 'granted' only
\* as the stored value, in the step that initialises the state from the Local
\* Cache or in the step in which load() applies the gateway's settings; the
\* toggle and the permission prompt never bring that state about
C38_FlagOnOnlyAsStored ==
    [][ (~FlagOnUngranted /\ FlagOnUngranted')
            => (InitialisedFromCache \/ LoadSucceeds) ]_vars

\* the flag is on as the cache had it, in a browser in which the user
\* blocked notifications after switching the weekly check on; load() is
\* still fetching
C38_Witness ==
    /\ phase = "mounted"
    /\ notifEnabled
    /\ notifPermission = "denied"
    /\ pcLoad.st = "fetching"
    /\ CachedNotif
    /\ timers = {}

(* -------------------- inline error and status report ------------------- *)

\* C39: the inline error of a check and a status report are never present
\* together: whenever the error is set, the result is null
C39_ErrorExcludesResult == error /= NoError => result = NoResult

(* ------------------------- sync status banners ------------------------- *)

\* {!dbLoading && isSupabaseAvailable && syncError && ...}: what the
\* "Cloud sync failed" banner shows
SyncFailedShown == ~dbLoading /\ isSupabaseAvailable /\ syncError

\* {!dbLoading && !syncError && ...}: what the "Synced to cloud" line shows
SyncedShown == ~dbLoading /\ ~syncError

\* C40: "Synced to cloud" is shown only when the gateway is configured and
\* load() has succeeded, and never together with the "not configured" banner
\* or the "Cloud sync failed" banner
C40_SyncedOnlyWhenLoaded ==
    SyncedShown
        => /\ isSupabaseAvailable
           /\ pcLoad.st = "done"
           /\ ~OfflineModeShown
           /\ ~SyncFailedShown

====
